---- MODULE Spec2Model ----
(***************************************************************************)
(* Model of the dictionary lookup of cairn (src/dict.go): the "Did you     *)
(* mean?" word matcher (loadWordList, levenshtein, suggestClosest), the    *)
(* lookup workflow (Dict, dictLookup) and the etymology resolution of      *)
(* printDictEntries (fetchEtymonlineEtymology, fetchWiktionaryEtymology    *)
(* and the merge), and the reading of a Wiktionary page                    *)
(* (extractAndCleanEtymology, cleanEtymologyWikitext,                      *)
(* extractWiktionaryExample), and the table of the saved words             *)
(* (saveDictWord, loadRecentDictWords).                                    *)
(*                                                                         *)
(* A Go string is a sequence of characters (runes); each character is a    *)
(* one-element TLA+ string.  The empty sequence is the empty Go string.    *)
(* In the etymology texts a piece of the sequence may also stand for a     *)
(* fixed substring the code searches for ("See origin", "&hellip;");       *)
(* ByteLen gives the number of bytes Go's len counts for each piece.       *)
(***************************************************************************)
EXTENDS Integers, Sequences, FiniteSets, TLC

VARIABLES
    sgList,     \* suggestClosest: the list loadWordList returned
    sgQuery,    \* suggestClosest: the argument word
    sgMax,      \* suggestClosest: the argument maxEditDistance
    sgRet,      \* suggestClosest: its return value, or NoRet before the call
    wordList,   \* the package variable wordList (nil is the empty list)
    once,       \* wordListOnce: "new", "running" (f is running) or "done"
    fetches,    \* history: how many times client.Get(wordsAlphaURL) ran
    outcome,    \* history: how the load ended: "none", "ok" or the error
    respBody,   \* history: the lines of the body the word list server sent
    calls,      \* history: how many suggestClosest calls were started
    pc,         \* per goroutine: its position in suggestClosest/loadWordList
    arg,        \* per goroutine: the arguments of its suggestClosest call
    loadErr,    \* per goroutine: loadWordList's local variable loadErr
    role,       \* history, per goroutine: how its call met the Once
    loadRet,    \* per goroutine: what loadWordList returned to it
    ret,        \* per goroutine: what suggestClosest returned to it
    dPc,        \* Dict: "idle", "request", "suggest" or "done"
    dWord,      \* dictLookup: the word after TrimSpace and ToLower
    dAllow,     \* dictLookup: the argument allowSuggest
    dAsked,     \* history: the words requested from the definition API
    dStatus,    \* history: the API's answers to these requests
    dSuggested, \* history: the values suggestClosest returned in this call
    dEtymFor,   \* history: the words the etymology sources were asked for
    dSaved,     \* history: the words passed to saveDictWord
    dEntries,   \* history: the entries printDictEntries was given
    dResult,    \* Dict: "none", "ok" or the error it returned
    dCalls,     \* history: how many Dict calls were started
    eWord,      \* printDictEntries: e.Word, the headword of the entry
    ePrim,      \* the response of Etymonline to the request for e.Word
    eSec,       \* the response of Wiktionary to the request for e.Word
    eRes,       \* printDictEntries: what lines 659-682 computed and printed
    wStar,      \* fetchWiktionaryEtymology: the wikitext of the page
    wRes,       \* fetchWiktionaryEtymology: the etymology and example returned
    lvArgs,     \* levenshtein: three strings a, b and c
    lvDist,     \* levenshtein: the distances it returned between them
    stRows,     \* the rows of the table dict_words
    stClock,    \* the second that datetime('now') gives
    stLog,      \* history: the words passed to saveDictWord, in order
    stRecent    \* what the last loadRecentDictWords call returned

sgVars == <<sgList, sgQuery, sgMax, sgRet>>
ldVars == <<wordList, once, fetches, outcome, respBody, calls, pc, arg, loadErr, role,
            loadRet, ret>>
onceVars == <<wordList, once, fetches, outcome, respBody>>
procVars == <<calls, pc, arg, loadErr, role, loadRet, ret>>
dVars == <<dPc, dWord, dAllow, dAsked, dStatus, dSuggested, dEtymFor, dSaved,
           dEntries, dResult, dCalls>>
eVars == <<eWord, ePrim, eSec, eRes>>
wVars == <<wStar, wRes>>
lvVars == <<lvArgs, lvDist>>
stVars == <<stRows, stClock, stLog, stRecent>>
vars == <<sgVars, ldVars, dVars, eVars, wVars, lvVars, stVars>>

(***************************************************************************)
(* Bounds of the model.                                                    *)
(***************************************************************************)
\* Longest vocabulary.
MaxListLen == 2
\* Goroutines that call suggestClosest concurrently.
NumProcs == 2
\* suggestClosest calls in one run of the process.
MaxCalls == 3
\* saveDictWord calls, and seconds that pass.
MaxSaves == 3
MaxClock == 2
\* Dict calls in one run of the process.
MaxDictCalls == 2
\* Lines of a Wiktionary page.
MaxPageLines == 6
\* Characters of an argument of levenshtein.
MaxStrLen == 2

\* The bound Dict passes to suggestClosest.
MaxEditDistance == 3

(***************************************************************************)
(* Strings.                                                                *)
(***************************************************************************)
EmptyStr == <<>>

\* Lower-case letters of vocabulary entries, and the letters of a query.
LowerLetters == {"a", "b"}
QueryLetters == {"a", "b", "A"}

\* strings.ToLower on one character.
LowerChar(c) ==
    CASE c = "A" -> "a"
      [] c = "B" -> "b"
      [] OTHER -> c

\* strings.ToLower.
ToLower(s) == [i \in 1..Len(s) |-> LowerChar(s[i])]

\* All strings over the letters cs with lo..hi characters.
StringsOver(cs, lo, hi) == UNION {[1..n -> cs] : n \in lo..hi}

min(a, b) == IF a < b THEN a ELSE b

(***************************************************************************)
(* levenshtein (src/dict.go:295-321): two rolling rows prev and curr,      *)
(* indexed 0..nb.                                                          *)
(***************************************************************************)
\* LevInner with the substitution cost forgotten (cost is always 0).
RECURSIVE LevInnerNoCost(_, _, _, _, _, _)
LevInnerNoCost(ra, rb, i, prev, curr, j) ==
    IF j > Len(rb) THEN curr
    ELSE LET cell == min(curr[j - 1] + 1, min(prev[j] + 1, prev[j - 1]))
         IN  LevInnerNoCost(ra, rb, i, prev, [curr EXCEPT ![j] = cell], j + 1)

\* LevInner with a deletion that costs 2 (prev[j] + 2).
RECURSIVE LevInnerDearDeletion(_, _, _, _, _, _)
LevInnerDearDeletion(ra, rb, i, prev, curr, j) ==
    IF j > Len(rb) THEN curr
    ELSE LET cost == IF ra[i] # rb[j] THEN 1 ELSE 0
             cell == min(curr[j - 1] + 1, min(prev[j] + 2, prev[j - 1] + cost))
         IN  LevInnerDearDeletion(ra, rb, i, prev, [curr EXCEPT ![j] = cell],
                                  j + 1)

\* LevInner with the comparison of the characters inverted (cost is 1 for
\* equal characters).
RECURSIVE LevInnerCostInverted(_, _, _, _, _, _)
LevInnerCostInverted(ra, rb, i, prev, curr, j) ==
    IF j > Len(rb) THEN curr
    ELSE LET cost == IF ra[i] = rb[j] THEN 1 ELSE 0
             cell == min(curr[j - 1] + 1, min(prev[j] + 1, prev[j - 1] + cost))
         IN  LevInnerCostInverted(ra, rb, i, prev, [curr EXCEPT ![j] = cell],
                                  j + 1)

\* The inner loop over j (lines 311-317) from column j on: fills curr.
RECURSIVE LevInner(_, _, _, _, _, _)
LevInner(ra, rb, i, prev, curr, j) ==
    IF j > Len(rb) THEN curr
    ELSE LET cost == IF ra[i] # rb[j] THEN 1 ELSE 0
             cell == min(curr[j - 1] + 1, min(prev[j] + 1, prev[j - 1] + cost))
         IN  LevInner(ra, rb, i, prev, [curr EXCEPT ![j] = cell], j + 1)

\* LevOuter without the swap of the rows: the row just filled is dropped.
RECURSIVE LevOuterNoSwap(_, _, _, _, _)
LevOuterNoSwap(ra, rb, i, prev, curr) ==
    IF i > Len(ra) THEN prev[Len(rb)]
    ELSE LET filled == LevInner(ra, rb, i, prev, [curr EXCEPT ![0] = i], 1)
         IN  LevOuterNoSwap(ra, rb, i + 1, prev, filled)

\* The outer loop over i (lines 309-319) from row i on; the rows swap after
\* each row, and the result is prev[nb].
RECURSIVE LevOuter(_, _, _, _, _)
LevOuter(ra, rb, i, prev, curr) ==
    IF i > Len(ra) THEN prev[Len(rb)]
    ELSE LET filled == LevInner(ra, rb, i, prev, [curr EXCEPT ![0] = i], 1)
         IN  LevOuter(ra, rb, i + 1, filled, prev)

levenshtein(a, b) ==
    IF Len(a) = 0 THEN Len(b)
    ELSE IF Len(b) = 0 THEN Len(a)
    ELSE LevOuter(a, b, 1, [j \in 0..Len(b) |-> j], [j \in 0..Len(b) |-> 0])

(***************************************************************************)
(* suggestClosest (src/dict.go:329-375).                                   *)
(***************************************************************************)
\* The return values ("", false) and (w, true).
NoSuggestion == [word |-> EmptyStr, ok |-> FALSE]
Suggestion(w) == [word |-> w, ok |-> TRUE]

\* The first-character filter left out.
FirstDiffersNever(rw, first) == FALSE

\* Line 352: the entry rw does not start with the query's first character.
FirstDiffers(rw, first) ==
    first # EmptyStr /\ (Len(rw) = 0 \/ <<rw[1]>> # first)

\* The length filter with a window of 1 instead of 2.
LengthTooFarByOne(diff) == diff < -1 \/ diff > 1

\* Line 356: the entry's length is more than 2 away from the query's.
LengthTooFar(diff) == diff < -2 \/ diff > 2

\* The update rule with a later candidate winning every tie.
UpdateBestOnTie(d, bestDist, sameLen, bestSameLen) == d <= bestDist

\* The update rule without the same-length preference.
UpdateBestNoTie(d, bestDist, sameLen, bestSameLen) == d < bestDist

\* Line 365: whether the candidate replaces the best so far.
UpdateBest(d, bestDist, sameLen, bestSameLen) ==
    d < bestDist \/ (d = bestDist /\ sameLen /\ ~bestSameLen)

\* The loop over the list (lines 346-370) from entry i on, and the return
\* after it (lines 371-374).  word is the lower-cased query.
RECURSIVE ScanList(_, _, _, _, _, _)
ScanList(list, word, maxEditDistance, i, bestWord, bestDist) ==
    IF i > Len(list)
    THEN IF bestWord # EmptyStr THEN Suggestion(bestWord) ELSE NoSuggestion
    ELSE
      LET w == ToLower(list[i])
          first == IF Len(word) > 0 THEN <<word[1]>> ELSE EmptyStr
          wordLen == Len(word)
          diff == Len(w) - wordLen
          d == levenshtein(word, w)
          sameLen == Len(w) = wordLen
          bestSameLen == bestWord # EmptyStr /\ Len(bestWord) = wordLen
          update == UpdateBest(d, bestDist, sameLen, bestSameLen)
      IN  IF w = word THEN Suggestion(w)
          ELSE IF FirstDiffers(w, first)
          THEN ScanList(list, word, maxEditDistance, i + 1, bestWord, bestDist)
          ELSE IF LengthTooFar(diff)
          THEN ScanList(list, word, maxEditDistance, i + 1, bestWord, bestDist)
          ELSE IF d > maxEditDistance
          THEN ScanList(list, word, maxEditDistance, i + 1, bestWord, bestDist)
          ELSE IF update
          THEN ScanList(list, word, maxEditDistance, i + 1, w, d)
          ELSE ScanList(list, word, maxEditDistance, i + 1, bestWord, bestDist)

\* suggestClosest without the lower-casing of the query.
suggestClosestNoLower(list, failed, word, maxEditDistance) ==
    IF failed \/ Len(list) = 0 THEN NoSuggestion
    ELSE IF word = EmptyStr THEN NoSuggestion
    ELSE ScanList(list, word, maxEditDistance, 1, EmptyStr, maxEditDistance + 1)

\* suggestClosest without the check for the empty query.
suggestClosestNoEmptyCheck(list, failed, word, maxEditDistance) ==
    IF failed \/ Len(list) = 0 THEN NoSuggestion
    ELSE ScanList(list, ToLower(word), maxEditDistance, 1, EmptyStr,
                  maxEditDistance + 1)

\* suggestClosest after loadWordList has returned (list, err); failed is
\* err != nil.
suggestClosest(list, failed, word, maxEditDistance) ==
    IF failed \/ Len(list) = 0 THEN NoSuggestion
    ELSE IF ToLower(word) = EmptyStr THEN NoSuggestion
    ELSE ScanList(list, ToLower(word), maxEditDistance, 1, EmptyStr,
                  maxEditDistance + 1)

(***************************************************************************)
(* loadWordList (src/dict.go:262-293).                                     *)
(***************************************************************************)
\* The white space of strings.TrimSpace and of \s in the regular
\* expressions.
WhiteSpace == {" ", "\t", "\n", "\r"}

\* strings.TrimSpace: drops the white space at both ends.
RECURSIVE TrimSpace(_)
TrimSpace(s) ==
    IF Len(s) = 0 THEN s
    ELSE IF s[1] \in WhiteSpace THEN TrimSpace(SubSeq(s, 2, Len(s)))
    ELSE IF s[Len(s)] \in WhiteSpace THEN TrimSpace(SubSeq(s, 1, Len(s) - 1))
    ELSE s

\* The scanner loop ended by the first blank line.
RECURSIVE ScanWordsUntilBlank(_)
ScanWordsUntilBlank(lines) ==
    IF Len(lines) = 0 \/ TrimSpace(ToLower(lines[1])) = EmptyStr THEN <<>>
    ELSE <<TrimSpace(ToLower(lines[1]))>> \o ScanWordsUntilBlank(Tail(lines))

\* Lines 276-283: the scanner loop over the lines read from the body.
ScanWords(lines) ==
    LET ws == [i \in 1..Len(lines) |-> TrimSpace(ToLower(lines[i]))]
    IN  SelectSeq(ws, LAMBDA w : w # EmptyStr)

\* The store of the scanned words that also happens when the scanner failed.
StoredListAlways(resp, old) ==
    IF resp.kind \in {"ok", "scanerr"} THEN ScanWords(resp.lines) ELSE old

\* Lines 284-287: wordList after the function passed to wordListOnce.Do has
\* run on response resp; old is wordList before.
StoredList(resp, old) ==
    IF resp.kind = "ok" THEN ScanWords(resp.lines) ELSE old

\* Lines 266-284: loadErr after the function has run on response resp:
\* the transport error, the status error, sc.Err() or nil.
LoadErrOf(resp) == IF resp.kind = "ok" THEN "nil" ELSE resp.kind

\* Lines 289-292: what loadWordList returns.
LoadReturn(err, cached) ==
    IF err # "nil" THEN [list |-> <<>>, failed |-> TRUE, returned |-> TRUE]
    ELSE [list |-> cached, failed |-> FALSE, returned |-> TRUE]

\* A lazy initialisation that tests the cached list instead of a Once.
OnceMayRunIfEmpty == once # "running" /\ Len(wordList) = 0

\* sync.Once: f runs for the first caller only.
OnceMayRun == once = "new"

(***************************************************************************)
(* The word matcher as a function of its inputs: a vocabulary as           *)
(* loadWordList caches it (lower-case, non-empty entries), a query and a   *)
(* bound.                                                                  *)
(***************************************************************************)
NoRet == [word |-> EmptyStr, ok |-> FALSE, returned |-> FALSE]

\* An entry of four letters, which a one-letter query's length filter skips.
LongWords == {<<"a", "b", "b", "b">>}
VocabularyWords == StringsOver(LowerLetters, 1, 3) \cup LongWords
Vocabularies == UNION {[1..n -> VocabularyWords] : n \in 0..MaxListLen}
Queries == StringsOver(QueryLetters, 0, 2)

Procs == 1..NumProcs
NoLoadRet == [list |-> <<>>, failed |-> FALSE, returned |-> FALSE]
NoArg == [word |-> EmptyStr, maxEditDistance |-> 0]

\* No goroutine has called suggestClosest and the Once is unused.
LoaderAtStart ==
    /\ wordList = <<>>
    /\ once = "new"
    /\ fetches = 0
    /\ outcome = "none"
    /\ respBody = <<>>
    /\ calls = 0
    /\ pc = [p \in Procs |-> "idle"]
    /\ arg = [p \in Procs |-> NoArg]
    /\ loadErr = [p \in Procs |-> "nil"]
    /\ role = [p \in Procs |-> "none"]
    /\ loadRet = [p \in Procs |-> NoLoadRet]
    /\ ret = [p \in Procs |-> NoRet]

\* The function-level check of the matcher is not running.
SuggestAtStart ==
    /\ sgList = <<>>
    /\ sgQuery = EmptyStr
    /\ sgMax = 0
    /\ sgRet = NoRet

\* No etymology has been resolved.
NoResponse == [kind |-> "none"]
NoEtym == [done |-> FALSE]
EtymAtStart ==
    /\ eWord = EmptyStr
    /\ ePrim = NoResponse
    /\ eSec = NoResponse
    /\ eRes = NoEtym

\* No Wiktionary page has been read.
NoWiki == [done |-> FALSE]
WikiAtStart ==
    /\ wStar = EmptyStr
    /\ wRes = NoWiki

\* levenshtein has not been called.
NoDist == [done |-> FALSE]
LevAtStart ==
    /\ lvArgs = <<EmptyStr, EmptyStr, EmptyStr>>
    /\ lvDist = NoDist

\* The table dict_words is empty and nothing was asked of it.
NoRecent == [asked |-> FALSE, n |-> 0, words |-> {}]
StoreAtStart ==
    /\ stRows = {}
    /\ stClock = 0
    /\ stLog = <<>>
    /\ stRecent = NoRecent

\* No Dict call has been made.
DictAtStart ==
    /\ dPc = "idle"
    /\ dWord = EmptyStr
    /\ dAllow = TRUE
    /\ dAsked = <<>>
    /\ dStatus = <<>>
    /\ dSuggested = <<>>
    /\ dEtymFor = <<>>
    /\ dSaved = <<>>
    /\ dEntries = <<>>
    /\ dResult = "none"
    /\ dCalls = 0

InitSuggest ==
    /\ sgList \in Vocabularies
    /\ sgQuery = EmptyStr
    /\ sgMax = 0
    /\ sgRet = NoRet
    /\ LoaderAtStart
    /\ DictAtStart
    /\ EtymAtStart
    /\ WikiAtStart /\ LevAtStart /\ StoreAtStart

\* One call suggestClosest(word, maxEditDistance) with the vocabulary loaded.
SuggestCall(word, maxEditDistance) ==
    /\ ~sgRet.returned
    /\ sgQuery' = word
    /\ sgMax' = maxEditDistance
    /\ LET r == suggestClosest(sgList, FALSE, word, maxEditDistance)
       IN  sgRet' = [word |-> r.word, ok |-> r.ok, returned |-> TRUE]
    /\ UNCHANGED <<sgList, ldVars, dVars, eVars, wVars, lvVars, stVars>>

NextSuggest ==
    \E word \in Queries, maxEditDistance \in 0..MaxEditDistance :
        SuggestCall(word, maxEditDistance)

SpecSuggest == InitSuggest /\ [][NextSuggest]_vars

(***************************************************************************)
(* Goroutines calling suggestClosest concurrently in one process: the      *)
(* steps of one call are the entry into loadWordList, wordListOnce.Do      *)
(* (run f, wait for the running f, or pass a finished Once), the fetch     *)
(* inside f, and the return through loadWordList and suggestClosest.       *)
(***************************************************************************)
\* What the word list server sends: a transport error, a status other than
\* 200, or a body of lines that the scanner reads to the end ("ok") or up to
\* a read error ("scanerr").
RawBodies ==
    { <<>>,
      << <<" ">>, <<>> >>,
      << <<"A", "b">>, <<>>, <<" ", "a", "a", " ">> >>,
      << <<"a", "b">>, <<"b">> >> }
FetchResponses ==
    [kind : {"transport", "status"}, lines : {<<>>}]
        \cup [kind : {"ok", "scanerr"}, lines : RawBodies]

\* The queries of the concurrent callers.
CallQueries == {EmptyStr, <<"a", "b">>, <<"A", "a">>}

Init == LoaderAtStart /\ SuggestAtStart /\ DictAtStart /\ EtymAtStart
    /\ WikiAtStart /\ LevAtStart /\ StoreAtStart

\* Line 329-330 and 263: a goroutine calls suggestClosest(word, m), which
\* calls loadWordList; loadErr is declared (nil).
SuggestEnter(p, word, m) ==
    /\ pc[p] = "idle"
    /\ calls < MaxCalls
    /\ calls' = calls + 1
    /\ pc' = [pc EXCEPT ![p] = "once"]
    /\ arg' = [arg EXCEPT ![p] = [word |-> word, maxEditDistance |-> m]]
    /\ loadErr' = [loadErr EXCEPT ![p] = "nil"]
    /\ role' = [role EXCEPT ![p] = "none"]
    /\ loadRet' = [loadRet EXCEPT ![p] = NoLoadRet]
    /\ ret' = [ret EXCEPT ![p] = NoRet]
    /\ UNCHANGED <<wordList, once, fetches, outcome, respBody, sgVars, dVars, eVars, wVars, lvVars, stVars>>

\* Line 264, wordListOnce.Do: the first caller starts f.
OnceRun(p) ==
    /\ pc[p] = "once"
    /\ OnceMayRun
    /\ once' = "running"
    /\ pc' = [pc EXCEPT ![p] = "fetch"]
    /\ role' = [role EXCEPT ![p] = "ran"]
    /\ UNCHANGED <<wordList, fetches, outcome, respBody, calls, arg, loadErr, loadRet,
                   ret, sgVars, dVars, eVars, wVars, lvVars, stVars>>

\* Line 264, wordListOnce.Do: a caller that finds f running waits for it.
OnceBlock(p) ==
    /\ pc[p] = "once"
    /\ ~OnceMayRun
    /\ once = "running"
    /\ pc' = [pc EXCEPT ![p] = "blocked"]
    /\ role' = [role EXCEPT ![p] = "waited"]
    /\ UNCHANGED <<wordList, once, fetches, outcome, respBody, calls, arg, loadErr,
                   loadRet, ret, sgVars, dVars, eVars, wVars, lvVars, stVars>>

\* Line 264, wordListOnce.Do: f has finished and the waiting caller goes on.
OnceWake(p) ==
    /\ pc[p] = "blocked"
    /\ once = "done"
    /\ pc' = [pc EXCEPT ![p] = "loaded"]
    /\ UNCHANGED <<wordList, once, fetches, outcome, respBody, calls, arg, loadErr,
                   role, loadRet, ret, sgVars, dVars, eVars, wVars, lvVars, stVars>>

\* Line 264, wordListOnce.Do: a caller that finds the Once done skips f.
OncePass(p) ==
    /\ pc[p] = "once"
    /\ ~OnceMayRun
    /\ once = "done"
    /\ pc' = [pc EXCEPT ![p] = "loaded"]
    /\ role' = [role EXCEPT ![p] = "late"]
    /\ UNCHANGED <<wordList, once, fetches, outcome, respBody, calls, arg, loadErr,
                   loadRet, ret, sgVars, dVars, eVars, wVars, lvVars, stVars>>

\* Lines 265-287: f fetches the list and gets response resp; then the Once
\* is done.
Fetch(p, resp) ==
    /\ pc[p] = "fetch"
    /\ fetches' = fetches + 1
    /\ loadErr' = [loadErr EXCEPT ![p] = LoadErrOf(resp)]
    /\ wordList' = StoredList(resp, wordList)
    /\ outcome' = resp.kind
    /\ respBody' = resp.lines
    /\ once' = "done"
    /\ pc' = [pc EXCEPT ![p] = "loaded"]
    /\ UNCHANGED <<calls, arg, role, loadRet, ret, sgVars, dVars, eVars, wVars, lvVars, stVars>>

\* Lines 289-292 and 331-374: loadWordList returns and suggestClosest runs
\* to its return on the list it got.
SuggestReturn(p) ==
    /\ pc[p] = "loaded"
    /\ LET lr == LoadReturn(loadErr[p], wordList)
           r == suggestClosest(lr.list, lr.failed, arg[p].word,
                               arg[p].maxEditDistance)
       IN  /\ loadRet' = [loadRet EXCEPT ![p] = lr]
           /\ ret' = [ret EXCEPT ![p] =
                        [word |-> r.word, ok |-> r.ok, returned |-> TRUE]]
    /\ pc' = [pc EXCEPT ![p] = "idle"]
    /\ UNCHANGED <<wordList, once, fetches, outcome, respBody, calls, arg, loadErr,
                   role, sgVars, dVars, eVars, wVars, lvVars, stVars>>

Next ==
    \E p \in Procs :
        \/ \E word \in CallQueries : SuggestEnter(p, word, MaxEditDistance)
        \/ OnceRun(p)
        \/ OnceBlock(p)
        \/ OnceWake(p)
        \/ OncePass(p)
        \/ \E resp \in FetchResponses : Fetch(p, resp)
        \/ SuggestReturn(p)

Spec == Init /\ [][Next]_vars

\* The one load has ended in an error.
LoadFailed == outcome \in {"transport", "status", "scanerr"}

\* C5: whatever the number and interleaving of the calls, the list is
\* fetched at most once; a finished load, failed or not, is never followed
\* by another fetch, and the cached list never changes after it.
FetchedAtMostOnce ==
    /\ [](fetches <= 1)
    /\ [][once = "done" =>
            (once' = "done" /\ fetches' = fetches /\ wordList' = wordList)]_vars

\* C5 witness: the only fetch failed, one call waited for it and one came
\* after it, and all calls have returned.
FetchedAtMostOnceWitness ==
    /\ fetches = 1 /\ LoadFailed
    /\ calls >= 3
    /\ \A p \in Procs : pc[p] = "idle"
    /\ \E p \in Procs : role[p] = "waited"
    /\ \E p \in Procs : role[p] = "late"

\* C6: every call of loadWordList gets the outcome of the one load: the
\* same list when it succeeded, the failure when it failed.
LoadOutcomeSeenByAll ==
    \A p \in Procs :
        loadRet[p].returned =>
            /\ LoadFailed => loadRet[p].failed
            /\ outcome = "ok" =>
                   (~loadRet[p].failed /\ loadRet[p].list = wordList)

\* C7: after a failed load, or one that yielded no word, every call of
\* suggestClosest returns no suggestion.
NoSuggestionWithoutVocabulary ==
    \A p \in Procs :
        (ret[p].returned /\ (LoadFailed \/ Len(wordList) = 0)) =>
            (~ret[p].ok /\ ret[p].word = EmptyStr)

\* C7 witness: the load failed; the call that ran it and another call have
\* both returned no suggestion for a non-empty query.
NoSuggestionWithoutVocabularyWitness ==
    /\ LoadFailed
    /\ \E p, q \in Procs :
          /\ role[p] = "ran" /\ role[q] \in {"waited", "late"}
          /\ ret[p].returned /\ ret[q].returned
          /\ ~ret[p].ok /\ ~ret[q].ok
          /\ arg[p].word # EmptyStr /\ arg[q].word # EmptyStr

\* The words on the lines of the body: line i gives a word unless it is
\* blank.
IsBlank(l) == \A i \in 1..Len(l) : l[i] \in WhiteSpace
BodyWords ==
    LET full == {i \in 1..Len(respBody) : ~IsBlank(respBody[i])}
        nth(k) == CHOOSE i \in full : Cardinality({j \in full : j < i}) = k - 1
    IN  [k \in 1..Cardinality(full) |-> TrimSpace(ToLower(respBody[nth(k)]))]

\* C29: the cached list is empty or holds every word of the body of a
\* fetch that succeeded to the end; after a fetch that failed, be it in
\* transport, by its status or in reading the body after some words, the
\* cached list is empty, and no call of suggestClosest gets a part of the
\* words.
CacheEmptyOrComplete ==
    /\ wordList # <<>> => (outcome = "ok" /\ wordList = BodyWords)
    /\ LoadFailed => wordList = <<>>
    /\ \A p \in Procs :
          loadRet[p].returned =>
              \/ loadRet[p].list = <<>>
              \/ outcome = "ok" /\ loadRet[p].list = BodyWords

\* C29 witness: the scanner failed after it had read two words; the cached
\* list is empty, and the call that ran the load and a later call both got
\* the empty list.
CacheEmptyOrCompleteWitness ==
    /\ outcome = "scanerr" /\ Len(BodyWords) = 2
    /\ wordList = <<>>
    /\ \E p, q \in Procs :
          /\ role[p] = "ran" /\ role[q] = "late"
          /\ loadRet[p].returned /\ loadRet[q].returned
          /\ loadRet[p].list = <<>> /\ loadRet[q].list = <<>>

\* Goroutine p called suggestClosest with a query that is empty.
EmptyQuery(p) == calls > 0 /\ role[p] # "none" /\ ToLower(arg[p].word) = EmptyStr

\* C25, as stated: a call with an empty query never runs the fetch of the
\* word list.
EmptyQueryFetchesNothing ==
    \A p \in Procs :
        EmptyQuery(p) => ~(role[p] = "ran" /\ pc[p] \in {"loaded", "idle"})

\* C25, amended: the word list is obtained before the query is looked at.
\* When a call with an empty query has returned, the one fetch has been
\* made, by this call or by another, and the call returned no suggestion
\* whatever the list holds.
EmptyQueryLoadsThenReturnsNothing ==
    \A p \in Procs :
        (EmptyQuery(p) /\ ret[p].returned) =>
            /\ fetches = 1 /\ loadRet[p].returned
            /\ ~ret[p].ok /\ ret[p].word = EmptyStr

\* C25 witness: the first call has an empty query, runs the fetch, gets a
\* list with words in it and returns no suggestion.
EmptyQueryLoadsThenReturnsNothingWitness ==
    \E p \in Procs :
        /\ EmptyQuery(p) /\ role[p] = "ran" /\ calls = 1
        /\ ret[p].returned /\ ~ret[p].ok
        /\ outcome = "ok" /\ Len(wordList) = 2
        /\ ~loadRet[p].failed /\ loadRet[p].list = wordList

(***************************************************************************)
(* Reference notions the statements about the matcher are written in.      *)
(***************************************************************************)
\* The edit distance by its definition: the least number of insertions,
\* deletions and substitutions turning a[i..] into b[j..].
RECURSIVE EditFrom(_, _, _, _)
EditFrom(a, b, i, j) ==
    IF i > Len(a) THEN Len(b) - j + 1
    ELSE IF j > Len(b) THEN Len(a) - i + 1
    ELSE min(1 + EditFrom(a, b, i + 1, j),
             min(1 + EditFrom(a, b, i, j + 1),
                 (IF a[i] = b[j] THEN 0 ELSE 1) + EditFrom(a, b, i + 1, j + 1)))

\* The distances between the lower-cased queries and the entries, computed
\* once.
EditTable ==
    [a \in {ToLower(q) : q \in Queries}, b \in VocabularyWords |->
        EditFrom(a, b, 1, 1)]

EditDistance(a, b) == EditTable[a, b]

\* The query as the matcher compares it.
SgWord == ToLower(sgQuery)
SgEntries == 1..Len(sgList)
SgInVocabulary == \E i \in SgEntries : sgList[i] = SgWord

\* Entry w passes both pre-filters for query q.
PassesFilters(w, q) ==
    /\ Len(w) > 0 /\ Len(q) > 0 /\ w[1] = q[1]
    /\ Len(w) - Len(q) <= 2 /\ Len(q) - Len(w) <= 2

\* The positions of the entries that pass the filters within the bound.
SgSurvivors ==
    {i \in SgEntries : /\ PassesFilters(sgList[i], SgWord)
                       /\ EditDistance(SgWord, sgList[i]) <= sgMax}

\* The survivors at the least distance among the survivors.
SgClosest ==
    LET surv == SgSurvivors
        dist == [i \in surv |-> EditDistance(SgWord, sgList[i])]
    IN  {i \in surv : \A k \in surv : dist[i] <= dist[k]}

\* C1: a query that equals a vocabulary entry after lower-casing gets exactly
\* that entry back, whatever the bound, the order of the vocabulary and the
\* candidates before it.
SuggestReturnsExactMatch ==
    (sgRet.returned /\ SgInVocabulary) => (sgRet.ok /\ sgRet.word = SgWord)

\* C1 witness: an upper-case query whose entry comes second, after another
\* entry that is itself a candidate within the bound.
SuggestReturnsExactMatchWitness ==
    /\ sgRet.returned /\ sgRet.ok
    /\ sgQuery # SgWord
    /\ Len(sgList) = 2 /\ sgList[2] = SgWord /\ sgList[1] # SgWord
    /\ 1 \in SgSurvivors
    /\ sgRet.word = sgList[2]

\* C2: with no entry within sgMax edits of the lower-cased query the
\* matcher returns nothing, and a returned word is never farther than sgMax.
SuggestNeverBeyondBound ==
    sgRet.returned =>
        /\ (\A i \in SgEntries : EditDistance(SgWord, sgList[i]) > sgMax)
               => (~sgRet.ok /\ sgRet.word = EmptyStr)
        /\ sgRet.ok => EditDistance(SgWord, sgRet.word) <= sgMax

\* C2 witness: every entry passes the pre-filters and is farther than the
\* bound, and nothing is returned.
SuggestNeverBeyondBoundWitness ==
    /\ sgRet.returned /\ ~sgRet.ok
    /\ Len(sgList) = 2
    /\ \A i \in SgEntries :
          /\ PassesFilters(sgList[i], SgWord)
          /\ EditDistance(SgWord, sgList[i]) > sgMax

\* C3: for a query that is not in the vocabulary, a word is returned iff
\* some entry passes both pre-filters within the bound, and the returned
\* word is such an entry at the least distance among them.
SuggestReturnsClosestSurvivor ==
    (sgRet.returned /\ ~SgInVocabulary) =>
        LET closest == SgClosest
        IN  /\ sgRet.ok <=> SgSurvivors # {}
            /\ sgRet.ok => \E i \in closest : sgRet.word = sgList[i]

\* C3 witness: the nearest entry within the bound fails the first-character
\* filter, and a farther entry that passes the filters is returned.
SuggestReturnsClosestSurvivorWitness ==
    /\ sgRet.returned /\ sgRet.ok /\ ~SgInVocabulary
    /\ Len(sgList) = 2
    /\ ~PassesFilters(sgList[1], SgWord)
    /\ EditDistance(SgWord, sgList[1]) < EditDistance(SgWord, sgList[2])
    /\ sgRet.word = sgList[2]

\* C4: when the least distance among the survivors is attained by an entry
\* of the query's length and by an entry of another length, the returned
\* word has the query's length, whichever of them comes first.
SuggestPrefersSameLength ==
    sgRet.returned =>
        LET closest == SgClosest
        IN  (/\ \E i \in closest : Len(sgList[i]) = Len(SgWord)
             /\ \E j \in closest : Len(sgList[j]) # Len(SgWord))
                => (/\ sgRet.ok
                    /\ Len(sgRet.word) = Len(SgWord)
                    /\ \E i \in closest : sgRet.word = sgList[i])

\* C4 witness: the entry of another length comes first and the same-length
\* entry at the same distance replaces it.
SuggestPrefersSameLengthWitness ==
    /\ sgRet.returned /\ sgRet.ok
    /\ Len(sgList) = 2 /\ SgClosest = {1, 2}
    /\ Len(sgList[1]) # Len(SgWord) /\ Len(sgList[2]) = Len(SgWord)
    /\ sgRet.word = sgList[2]

\* C22: a returned word that is not the lower-cased query starts with the
\* query's first character and is at most 2 characters longer or shorter
\* than the query, whatever its distance and whatever else is in the
\* vocabulary.
SuggestNeverReturnsFiltered ==
    (sgRet.returned /\ sgRet.ok /\ sgRet.word # SgWord) =>
        /\ Len(SgWord) > 0 /\ Len(sgRet.word) > 0
        /\ sgRet.word[1] = SgWord[1]
        /\ Len(sgRet.word) - Len(SgWord) \in -2..2

\* C22 witness: the only entries within the bound are one with another first
\* character and one that is 3 characters longer, and nothing is returned.
SuggestNeverReturnsFilteredWitness ==
    /\ sgRet.returned /\ ~sgRet.ok
    /\ Len(sgList) = 2 /\ Len(SgWord) = 1
    /\ sgList[1][1] # SgWord[1] /\ Len(sgList[1]) = 1
    /\ sgList[2][1] = SgWord[1] /\ Len(sgList[2]) = 4
    /\ \A i \in SgEntries : EditDistance(SgWord, sgList[i]) <= sgMax

\* The least position of a non-empty set of positions.
FirstOf(ps) == CHOOSE i \in ps : \A k \in ps : i <= k

\* C23: when some entry survives, the returned word is the first entry in
\* vocabulary order among the closest survivors of the query's length, and
\* the first closest survivor if none has the query's length; a later
\* entry at the same distance replaces an earlier one only by having the
\* query's length when the earlier one has not.
SuggestBreaksTiesByOrder ==
    sgRet.returned =>
        LET closest == SgClosest
            same == {i \in closest : Len(sgList[i]) = Len(SgWord)}
        IN  closest # {} =>
              /\ sgRet.ok
              /\ sgRet.word =
                    sgList[FirstOf(IF same # {} THEN same ELSE closest)]

\* C23 witness: two different entries at the same least distance, neither
\* of the query's length, and the first of them is returned.
SuggestBreaksTiesByOrderWitness ==
    /\ sgRet.returned /\ sgRet.ok
    /\ Len(sgList) = 2 /\ SgClosest = {1, 2}
    /\ sgList[1] # sgList[2]
    /\ Len(sgList[1]) # Len(SgWord) /\ Len(sgList[2]) # Len(SgWord)
    /\ sgRet.word = sgList[1]

(***************************************************************************)
(* Dict and dictLookup (src/dict.go:597-639) with printDictEntries         *)
(* (641-722), called from one goroutine.                                   *)
(***************************************************************************)
\* The argument of the restarted lookup with the flag left on.
RestartAllowSuggestAgain == TRUE

\* Line 617: allowSuggest of the lookup restarted with the suggestion.
RestartAllowSuggest == FALSE

\* The words given to Dict.
DictInputs == {EmptyStr, <<" ">>, <<"a", "b">>, <<"A", "a", " ">>}

\* The headwords of the entries the definition API returns.
EntryWords == {<<"a", "b">>, <<"A", "a">>}
EntryLists ==
    {<<h>> : h \in EntryWords} \cup {<< <<"a", "b">>, <<"A", "a">> >>}

\* What the definition API answers: a transport error, 404, another status,
\* or 200 with a body that does not decode, with no entry or with entries.
ApiAnswers ==
    [status : {"transport", "404", "500", "undecodable"}, entries : {<<>>}]
        \cup [status : {"200"}, entries : EntryLists \cup {<<>>}]

\* The bodies the word list server sends to Dict's suggestClosest.
DictFetchResponses ==
    { [kind |-> "status", lines |-> <<>>],
      [kind |-> "ok", lines |-> <<>>],
      [kind |-> "ok", lines |-> << <<"A", "a">>, <<"a", "b", "b">> >>] }

\* The status of the answer taken for "not found", with every other
\* status than 200 taken for it too.
NotFoundOrOtherStatus(status) == status \in {"404", "500"}

\* Line 611: resp.StatusCode == http.StatusNotFound.
NotFound(status) == status = "404"

\* The etymology fetched for the first entry only.
EntryHeadwordsOfFirst(entries) ==
    IF Len(entries) = 0 \/ TrimSpace(ToLower(entries[1])) = EmptyStr THEN <<>>
    ELSE <<TrimSpace(ToLower(entries[1]))>>

\* Lines 659-660 and 719 for every entry: the words the two etymology
\* sources are fetched for (each fetcher returns before its request when the
\* trimmed, lower-cased word is empty) and the words saveDictWord stores.
RECURSIVE EntryHeadwords(_)
EntryHeadwords(entries) ==
    IF Len(entries) = 0 THEN <<>>
    ELSE LET h == TrimSpace(ToLower(entries[1]))
         IN  (IF h = EmptyStr THEN <<>> ELSE <<h>>)
                 \o EntryHeadwords(Tail(entries))

InitDict ==
    LoaderAtStart /\ SuggestAtStart /\ DictAtStart /\ EtymAtStart
    /\ WikiAtStart /\ LevAtStart /\ StoreAtStart

\* Lines 597-605: Dict(word) calls dictLookup(word, true), which trims and
\* lower-cases the word and returns an error for an empty one.
DictCall(word) ==
    /\ dPc = "idle"
    /\ dCalls < MaxDictCalls
    /\ dCalls' = dCalls + 1
    /\ dWord' = TrimSpace(ToLower(word))
    /\ dAllow' = TRUE
    /\ dAsked' = <<>>
    /\ dStatus' = <<>>
    /\ dSuggested' = <<>>
    /\ dEtymFor' = <<>>
    /\ dEntries' = <<>>
    /\ IF TrimSpace(ToLower(word)) = EmptyStr
       THEN dPc' = "done" /\ dResult' = "no word provided"
       ELSE dPc' = "request" /\ dResult' = "none"
    /\ UNCHANGED <<dSaved, sgVars, ldVars, eVars, wVars, lvVars, stVars>>

\* Lines 606-638: the request to the definition API and its answer ans.  A
\* 404 with allowSuggest goes on to suggestClosest; 200 with entries prints
\* them, which fetches the etymologies and saves the words.
DictRequest(ans) ==
    /\ dPc = "request"
    /\ dAsked' = Append(dAsked, dWord)
    /\ dStatus' = Append(dStatus, ans.status)
    /\ CASE ans.status = "transport" ->
              /\ dPc' = "done" /\ dResult' = "request failed"
              /\ UNCHANGED <<dEtymFor, dSaved, dEntries>>
         [] NotFound(ans.status) /\ dAllow ->
              /\ dPc' = "suggest" /\ dResult' = "none"
              /\ UNCHANGED <<dEtymFor, dSaved, dEntries>>
         [] NotFound(ans.status) /\ ~dAllow ->
              /\ dPc' = "done" /\ dResult' = "word not found"
              /\ UNCHANGED <<dEtymFor, dSaved, dEntries>>
         [] ans.status = "500" ->
              /\ dPc' = "done" /\ dResult' = "dictionary API returned"
              /\ UNCHANGED <<dEtymFor, dSaved, dEntries>>
         [] ans.status = "undecodable" ->
              /\ dPc' = "done" /\ dResult' = "decode response"
              /\ UNCHANGED <<dEtymFor, dSaved, dEntries>>
         [] ans.status = "200" /\ Len(ans.entries) = 0 ->
              /\ dPc' = "done" /\ dResult' = "no definition"
              /\ UNCHANGED <<dEtymFor, dSaved, dEntries>>
         [] ans.status = "200" /\ Len(ans.entries) > 0 ->
              /\ dPc' = "done" /\ dResult' = "ok"
              /\ dEtymFor' = dEtymFor \o EntryHeadwords(ans.entries)
              /\ dSaved' = dSaved \o EntryHeadwords(ans.entries)
              /\ dEntries' = ans.entries
    /\ UNCHANGED <<dWord, dAllow, dSuggested, dCalls, sgVars, ldVars, eVars, wVars, lvVars, stVars>>

\* Lines 614-625: suggestClosest(word, 3) after a 404, with loadWordList
\* inside it (resp is the word list server's response if the Once has not
\* run yet); a suggestion restarts the lookup, no suggestion ends it.
DictSuggest(resp) ==
    /\ dPc = "suggest"
    /\ LET ran == OnceMayRun
           err == IF ran THEN LoadErrOf(resp) ELSE "nil"
           cached == IF ran THEN StoredList(resp, wordList) ELSE wordList
           lr == LoadReturn(err, cached)
           r == suggestClosest(lr.list, lr.failed, dWord, MaxEditDistance)
       IN  /\ wordList' = cached
           /\ once' = "done"
           /\ fetches' = IF ran THEN fetches + 1 ELSE fetches
           /\ outcome' = IF ran THEN resp.kind ELSE outcome
           /\ respBody' = IF ran THEN resp.lines ELSE respBody
           /\ dSuggested' = Append(dSuggested, r)
           /\ IF r.ok
              THEN /\ dWord' = TrimSpace(ToLower(r.word))
                   /\ dAllow' = RestartAllowSuggest
                   /\ dPc' = "request"
                   /\ dResult' = "none"
              ELSE /\ dPc' = "done"
                   /\ dResult' = "word not found"
                   /\ UNCHANGED <<dWord, dAllow>>
    /\ UNCHANGED <<dAsked, dStatus, dEtymFor, dSaved, dEntries, dCalls, sgVars,
                   procVars, eVars, wVars, lvVars, stVars>>

\* Dict has returned to its caller.
DictReturn ==
    /\ dPc = "done"
    /\ dPc' = "idle"
    /\ UNCHANGED <<dWord, dAllow, dAsked, dStatus, dSuggested, dEtymFor,
                   dSaved, dEntries, dResult, dCalls, sgVars, ldVars, eVars, wVars, lvVars, stVars>>

NextDict ==
    \/ \E word \in DictInputs : DictCall(word)
    \/ \E ans \in ApiAnswers : DictRequest(ans)
    \/ \E resp \in DictFetchResponses : DictSuggest(resp)
    \/ DictReturn

SpecDict == InitDict /\ [][NextDict]_vars

\* C8: one Dict call asks the definition API at most twice and calls
\* suggestClosest at most once; a second request follows a 404 and asks for
\* the suggested word, and a 404 to it ends the call with an error and no
\* second suggestion.
DictRestartsOnce ==
    /\ Len(dAsked) <= 2
    /\ Len(dSuggested) <= 1
    /\ Len(dAsked) = 2 =>
          /\ dStatus[1] = "404"
          /\ Len(dSuggested) = 1 /\ dSuggested[1].ok
          /\ dAsked[2] = dSuggested[1].word
          /\ dStatus[2] = "404" =>
                (dPc \in {"done", "idle"} /\ dResult = "word not found")

\* C8 witness: the first request and the request for the suggestion were
\* both answered 404, and Dict returned the error after one suggestion.
DictRestartsOnceWitness ==
    /\ dPc = "done"
    /\ Len(dAsked) = 2 /\ dStatus = <<"404", "404">>
    /\ dAsked[1] # dAsked[2]
    /\ Len(dSuggested) = 1
    /\ dResult = "word not found"

\* The headwords of the entries Dict printed, as the etymology sources take
\* them.
PrintedHeadwords ==
    {TrimSpace(ToLower(dEntries[i])) : i \in 1..Len(dEntries)} \ {EmptyStr}

\* C28: the etymology sources are asked only in a Dict call whose last
\* request to the definition API, the first or the one for the suggested
\* word, was answered 200 with entries, and they are asked for the
\* headwords of these entries, each of them; a call that ends with
\* "not found" or another error asks them nothing.
EtymologyOnlyAfterDefinition ==
    /\ dEtymFor # <<>> =>
          /\ dStatus # <<>> /\ dStatus[Len(dStatus)] = "200"
          /\ dResult = "ok"
          /\ {dEtymFor[i] : i \in 1..Len(dEtymFor)} = PrintedHeadwords
    /\ dResult = "ok" => Len(dEtymFor) = Len(dEntries)
    /\ dResult \notin {"ok", "none"} => dEtymFor = <<>>

\* C28 witness: the first request was answered 404, the request for the
\* suggested word 200 with two entries, and the etymology sources were
\* asked for both headwords, neither of which is the word first asked.
EtymologyOnlyAfterDefinitionWitness ==
    /\ dPc = "done" /\ dResult = "ok"
    /\ dStatus = <<"404", "200">>
    /\ Len(dSuggested) = 1 /\ dSuggested[1].ok
    /\ Len(dEntries) = 2 /\ Len(dEtymFor) = 2
    /\ dEtymFor[1] # dEtymFor[2]
    /\ dAsked[1] # dEtymFor[1]

\* C30: suggestClosest, and with it the fetch of the word list, runs only
\* after the definition API answered 404 to the first request of a Dict
\* call; no other answer, and no empty word, leads to a suggestion or to a
\* load of the word list.
SuggestOnlyAfterFirstNotFound ==
    /\ [](dSuggested # <<>> => (dStatus # <<>> /\ dStatus[1] = "404"))
    /\ [][(Len(dSuggested') > Len(dSuggested) \/ fetches' # fetches
            \/ once' # once \/ wordList' # wordList)
              => (dStatus = <<"404">> /\ dWord # EmptyStr
                  /\ Len(dSuggested') = 1)]_vars

\* C30 witness: the second Dict call of the process had its first request
\* answered 404, and the word list was loaded once and gave a suggestion.
SuggestOnlyAfterFirstNotFoundWitness ==
    /\ dCalls = 2
    /\ dStatus # <<>> /\ dStatus[1] = "404"
    /\ Len(dSuggested) = 1 /\ dSuggested[1].ok
    /\ fetches = 1 /\ outcome = "ok"

(***************************************************************************)
(* The etymology of one entry: fetchEtymonlineEtymology (379-442),         *)
(* fetchWiktionaryEtymology (444-493) and lines 659-682 of                 *)
(* printDictEntries.                                                       *)
(***************************************************************************)
\* The bytes of one piece of a text: the ellipsis character U+2026 is three
\* bytes of UTF-8, the named substrings and the markup tokens have their
\* length, a letter is one.
PieceBytes(c) ==
    CASE c = "U+2026" -> 3
      [] c = "The quick brown fox jumps." -> 26
      [] c = "Lorem ipsum dolor sit amet." -> 27
      [] c = "(277 letters)" -> 277
      [] c \in {"{{", "}}", "ux", "en", "#:", "#*"} -> 2
      [] c = "passage=" -> 8
      [] c = "quote-book" -> 10
      [] c = "See origin" -> 10
      [] c = "&hellip;" -> 8
      [] c = "&quot;" -> 6
      [] c = "&amp;" -> 5
      [] c = "&#39;" -> 5
      [] OTHER -> 1

\* Go's len of a string: its number of bytes.
RECURSIVE ByteLen(_)
ByteLen(s) == IF Len(s) = 0 THEN 0 ELSE PieceBytes(s[1]) + ByteLen(Tail(s))

\* The path of the URL that served the document: /word/<resolved>, with a
\* trailing slash or without.
WordPath == <<"/", "w", "o", "r", "d", "/">>
PathOf(resp) ==
    WordPath \o resp.resolved \o (IF resp.slash THEN <<"/">> ELSE <<>>)

\* Lines 401-404: the last segment of the path after TrimSuffix(path, "/").
PathLast(path) ==
    LET trimmed == IF Len(path) > 0 /\ path[Len(path)] = "/"
                   THEN SubSeq(path, 1, Len(path) - 1) ELSE path
        slashes == {i \in 1..Len(trimmed) : trimmed[i] = "/"}
        last == IF slashes = {} THEN 0
                ELSE CHOOSE i \in slashes : \A k \in slashes : k <= i
    IN  SubSeq(trimmed, last + 1, Len(trimmed))

\* The redirect test left out.
RedirectedNever(path, word) == FALSE

\* Lines 400-409: the document was served for another word than asked.
RedirectedElsewhere(path, word) == ToLower(PathLast(path)) # word

\* Line 429: strings.Index(etym, " See origin") as a position in the
\* sequence (0 when absent); the byte index is > 0 iff the position is > 1.
SeeOriginAt(etym) ==
    LET hits == {i \in 1..(Len(etym) - 1) :
                    etym[i] = " " /\ etym[i + 1] = "See origin"}
    IN  IF hits = {} THEN 0 ELSE CHOOSE i \in hits : \A k \in hits : i <= k

\* Lines 437-440: the four strings.ReplaceAll calls.
RECURSIVE DecodeEntities(_)
DecodeEntities(s) ==
    IF Len(s) = 0 THEN <<>>
    ELSE (CASE s[1] = "&quot;" -> <<"\"">>
            [] s[1] = "&amp;" -> <<"&">>
            [] s[1] = "&#39;" -> <<"'">>
            [] s[1] = "&hellip;" -> <<".", ".", ".">>
            [] OTHER -> <<s[1]>>) \o DecodeEntities(Tail(s))

EtymFailed == [text |-> EmptyStr, failed |-> TRUE]
EtymText(t) == [text |-> t, failed |-> FALSE]

\* fetchEtymonlineEtymology with the error of io.ReadAll ignored: the
\* description is taken from what was read.
fetchEtymonlineEtymologyReadErrIgnored(word, resp) ==
    LET w == TrimSpace(ToLower(word))
        m == IF resp.meta # EmptyStr THEN resp.meta ELSE resp.og
        idx == SeeOriginAt(m)
        cut == IF idx > 1 THEN SubSeq(m, 1, idx - 1) ELSE m
        etym == TrimSpace(cut)
    IN  IF w = EmptyStr THEN EtymFailed
        ELSE IF resp.kind \in {"transport", "status"} THEN EtymFailed
        ELSE IF RedirectedElsewhere(PathOf(resp), w) THEN EtymText(EmptyStr)
        ELSE IF m = EmptyStr THEN EtymText(EmptyStr)
        ELSE IF etym = EmptyStr THEN EtymText(EmptyStr)
        ELSE EtymText(DecodeEntities(etym))

\* fetchEtymonlineEtymology(word) when the site answers resp.
fetchEtymonlineEtymology(word, resp) ==
    LET w == TrimSpace(ToLower(word))
        m == IF resp.meta # EmptyStr THEN resp.meta ELSE resp.og
        idx == SeeOriginAt(m)
        cut == IF idx > 1 THEN SubSeq(m, 1, idx - 1) ELSE m
        etym == TrimSpace(cut)
    IN  IF w = EmptyStr THEN EtymFailed
        ELSE IF resp.kind \in {"transport", "status"} THEN EtymFailed
        ELSE IF RedirectedElsewhere(PathOf(resp), w) THEN EtymText(EmptyStr)
        ELSE IF resp.kind = "readerr" THEN EtymFailed
        ELSE IF m = EmptyStr THEN EtymText(EmptyStr)
        ELSE IF etym = EmptyStr THEN EtymText(EmptyStr)
        ELSE EtymText(DecodeEntities(etym))

\* fetchWiktionaryEtymology(word) when the site answers resp; the etymology
\* and the example extracted from the page are fields of resp.
fetchWiktionaryEtymology(word, resp) ==
    LET w == TrimSpace(ToLower(word))
    IN  IF w = EmptyStr \/ resp.kind \in {"transport", "status", "undecodable"}
        THEN [etym |-> EmptyStr, example |-> EmptyStr, failed |-> TRUE]
        ELSE IF resp.kind = "nopage"
        THEN [etym |-> EmptyStr, example |-> EmptyStr, failed |-> FALSE]
        ELSE [etym |-> resp.etym, example |-> resp.example, failed |-> FALSE]

\* The merge that also takes a Wiktionary text of equal length.
MergeEtymologyOrEqual(etym, wiktionaryEtym) ==
    IF wiktionaryEtym # EmptyStr
         /\ (etym = EmptyStr \/ ByteLen(wiktionaryEtym) >= ByteLen(etym))
    THEN wiktionaryEtym ELSE etym

\* Lines 664-666: the text that is printed.
MergeEtymology(etym, wiktionaryEtym) ==
    IF wiktionaryEtym # EmptyStr
         /\ (etym = EmptyStr \/ ByteLen(wiktionaryEtym) > ByteLen(etym))
    THEN wiktionaryEtym ELSE etym

\* strings.HasSuffix.
HasSuffix(s, suffix) ==
    /\ Len(suffix) <= Len(s)
    /\ SubSeq(s, Len(s) - Len(suffix) + 1, Len(s)) = suffix

\* The pointer printed only for the ellipsis character.
FullEntryShownEllipsisOnly(etym) ==
    etym # EmptyStr /\ HasSuffix(etym, <<"U+2026">>)

\* Lines 667 and 676: the "Full entry" pointer is printed.
FullEntryShown(etym) ==
    /\ etym # EmptyStr
    /\ (HasSuffix(etym, <<"U+2026">>) \/ HasSuffix(etym, <<".", ".", ".">>))

\* What Etymonline answers: a transport error, a status other than 200, or a
\* document served at /word/<resolved>, whose body may fail to read and
\* carries a description, an og:description, both or none.
Descriptions ==
    { <<"e">>,
      <<"e", "e", "e", "e">>,
      <<"e", "e", " ", "See origin", " ", "e">>,
      <<"e", "U+2026">>,
      <<"e", "&hellip;">>,
      <<" ", "See origin">>,
      <<"See origin", " ", "e">>,
      <<" ">> }
PrimaryAnswers ==
    [kind : {"transport", "status"}, resolved : {<<"a", "b">>},
     slash : {FALSE}, meta : {EmptyStr}, og : {EmptyStr}]
    \cup [kind : {"served"}, resolved : {<<"a", "b">>, <<"A", "b">>, <<"a">>},
          slash : BOOLEAN, meta : Descriptions \cup {EmptyStr},
          og : {EmptyStr, <<"e", "e">>}]
    \cup [kind : {"readerr"}, resolved : {<<"a", "b">>, <<"a">>},
          slash : {FALSE}, meta : {<<"e">>}, og : {EmptyStr}]

\* What Wiktionary answers: an error, no usable page, or a page with its
\* extracted etymology and example.
SecondaryAnswers ==
    [kind : {"transport", "status", "undecodable", "nopage"},
     etym : {EmptyStr}, example : {EmptyStr}]
    \cup [kind : {"page"},
          etym : {EmptyStr, <<"e", "e">>, <<"e", "e", "e", "e">>,
                  <<"e", "e", "e", "U+2026">>, <<"e", ".", ".", ".">>},
          example : {EmptyStr, <<"x">>}]

\* The headwords of the entries.
Headwords == {<<"a", "b">>, <<"A", "b", " ">>, EmptyStr}

InitEtym ==
    LoaderAtStart /\ SuggestAtStart /\ DictAtStart /\ EtymAtStart
    /\ WikiAtStart /\ LevAtStart /\ StoreAtStart

\* Lines 659-682 for one entry with headword word.
ResolveEtymology(word, prim, sec) ==
    /\ ~eRes.done
    /\ eWord' = word
    /\ ePrim' = prim
    /\ eSec' = sec
    /\ LET p == fetchEtymonlineEtymology(word, prim)
           w == fetchWiktionaryEtymology(word, sec)
           etym == MergeEtymology(p.text, w.etym)
       IN  eRes' = [done |-> TRUE,
                    primary |-> p.text,
                    secondary |-> w.etym,
                    diagnostic |-> (w.failed /\ p.text = EmptyStr),
                    text |-> etym,
                    truncated |-> FullEntryShown(etym),
                    example |-> w.example]
    /\ UNCHANGED <<sgVars, ldVars, dVars, wVars, lvVars, stVars>>

NextEtym ==
    \E word \in Headwords, prim \in PrimaryAnswers, sec \in SecondaryAnswers :
        ResolveEtymology(word, prim, sec)

SpecEtym == InitEtym /\ [][NextEtym]_vars

\* Etymonline served a document for the request.
PrimaryServed == ePrim.kind \in {"served", "readerr"}

\* The headword Etymonline resolved to differs from the requested one,
\* compared trimmed and without case.
ResolvedDiffers ==
    TrimSpace(ToLower(ePrim.resolved)) # TrimSpace(ToLower(eWord))

\* The text Wiktionary supplied for the entry.
SecondaryText == IF eSec.kind = "page" THEN eSec.etym ELSE EmptyStr

\* C9: when Etymonline serves a document for another headword than the
\* requested one, the primary extraction is empty and the printed etymology
\* is the Wiktionary text or empty.
RedirectedPrimaryExcluded ==
    (eRes.done /\ PrimaryServed /\ ResolvedDiffers) =>
        /\ eRes.primary = EmptyStr
        /\ eRes.text = EmptyStr \/ eRes.text = SecondaryText

\* C9 witness: the redirected document has a description longer than the
\* Wiktionary text, and the Wiktionary text is printed.
RedirectedPrimaryExcludedWitness ==
    /\ eRes.done /\ ePrim.kind = "served" /\ ResolvedDiffers
    /\ eWord # EmptyStr
    /\ SecondaryText # EmptyStr
    /\ ByteLen(ePrim.meta) > ByteLen(SecondaryText)
    /\ TrimSpace(ePrim.meta) = ePrim.meta
    /\ eRes.text = SecondaryText

\* C10: with P the Etymonline text and S the Wiktionary text, lengths in
\* bytes as Go's len counts them: the printed text is S when S is not empty
\* and P is empty or shorter than S, and P in every other case, also at
\* equal lengths; it is empty when both are empty.
MergePrefersLongerSecondary ==
    eRes.done =>
        LET P == eRes.primary
            S == eRes.secondary
        IN  /\ (S = EmptyStr) => eRes.text = P
            /\ (S # EmptyStr /\ P = EmptyStr) => eRes.text = S
            /\ (S # EmptyStr /\ P # EmptyStr /\ ByteLen(S) > ByteLen(P))
                   => eRes.text = S
            /\ (S # EmptyStr /\ P # EmptyStr /\ ByteLen(S) <= ByteLen(P))
                   => eRes.text = P
            /\ (S = EmptyStr /\ P = EmptyStr) => eRes.text = EmptyStr

\* C10 witness: both texts are present, differ and have the same length in
\* bytes, and the Etymonline text is printed.
MergePrefersLongerSecondaryWitness ==
    /\ eRes.done
    /\ eRes.primary # EmptyStr /\ eRes.secondary # EmptyStr
    /\ eRes.primary # eRes.secondary
    /\ ByteLen(eRes.primary) = ByteLen(eRes.secondary)
    /\ eRes.text = eRes.primary

\* The last character of the printed text is the ellipsis character, or its
\* last three characters are periods.
EndsWithEllipsis(t) ==
    \/ Len(t) >= 1 /\ t[Len(t)] = "U+2026"
    \/ Len(t) >= 3 /\ \A k \in (Len(t) - 2)..Len(t) : t[k] = "."

\* C11: the "Full entry" pointer is printed iff the printed etymology ends
\* with the ellipsis character or with three periods, whichever source the
\* text came from; it is not printed when both sources gave no text.
TruncatedIffEllipsis ==
    eRes.done =>
        /\ eRes.truncated <=> EndsWithEllipsis(eRes.text)
        /\ (eRes.primary = EmptyStr /\ eRes.secondary = EmptyStr)
               => ~eRes.truncated

\* C11 witness: the Etymonline description ended with the entity &hellip;,
\* the printed text is the decoded description, it ends with three periods
\* and the pointer is printed.
TruncatedIffEllipsisWitness ==
    /\ eRes.done
    /\ ePrim.kind = "served" /\ ePrim.meta = <<"e", "&hellip;">>
    /\ eRes.text = <<"e", ".", ".", ".">>
    /\ eRes.text = eRes.primary /\ eRes.text # eRes.secondary
    /\ eRes.truncated

\* The entry has no headword after trimming: both fetches return "no word".
NoHeadword == TrimSpace(ToLower(eWord)) = EmptyStr

\* The request to Etymonline failed: no headword, a transport error, a
\* status other than 200, or a body that could not be read.
PrimaryFailed ==
    NoHeadword \/ ePrim.kind \in {"transport", "status", "readerr"}

\* The request to Wiktionary failed: no headword, a transport error, a
\* status other than 200, or a body that is not the expected JSON.
SecondaryFailed ==
    NoHeadword \/ eSec.kind \in {"transport", "status", "undecodable"}

\* C12: a source whose fetch or parse failed counts as having no text and
\* the other source's text is printed as it would be alone; the resolution
\* of the entry is completed for every combination of failures.
SourceFailureIsEmptyText ==
    eRes.done =>
        /\ PrimaryFailed =>
               /\ eRes.primary = EmptyStr
               /\ eRes.text = (IF SecondaryFailed THEN EmptyStr
                               ELSE SecondaryText)
        /\ SecondaryFailed =>
               /\ eRes.secondary = EmptyStr
               /\ eRes.text = eRes.primary

\* C12 witness: the body of the Etymonline document for the requested word
\* could not be read, Wiktionary supplied a text, and that text is printed.
SourceFailureIsEmptyTextWitness ==
    /\ eRes.done
    /\ ePrim.kind = "readerr" /\ ~ResolvedDiffers
    /\ ePrim.meta # EmptyStr
    /\ ~SecondaryFailed /\ SecondaryText # EmptyStr
    /\ eRes.text = SecondaryText

(***************************************************************************)
(* The wikitext of a Wiktionary page: extractAndCleanEtymology (495-514),  *)
(* joinEtymologyParts (516-528), extractWiktionaryExample (530-561),       *)
(* cleanExampleText (563-568) and cleanEtymologyWikitext (570-595).        *)
(*                                                                         *)
(* A wikitext is a sequence of pieces: the line feed "\n", a blank, a      *)
(* heading line such as "==English==", the markup tokens "{{", "|", "}}",  *)
(* template names, language codes and words.  A regular expression of the  *)
(* code is an operator that finds its leftmost match the way the regexp    *)
(* package does: greedy and lazy repetitions in the order of the pattern.  *)
(***************************************************************************)
\* Lines 496-497 and 531-532: "\r\n" and then "\r" become "\n".
RECURSIVE NormalizeNewlines(_)
NormalizeNewlines(s) ==
    IF Len(s) = 0 THEN <<>>
    ELSE IF s[1] = "\r" /\ Len(s) >= 2 /\ s[2] = "\n"
    THEN NormalizeNewlines(Tail(s))
    ELSE <<(IF s[1] = "\r" THEN "\n" ELSE s[1])>> \o NormalizeNewlines(Tail(s))

\* The heading lines "==[^=\n][^\n]*" can start, those "===" can start, and
\* those that match "===Etymology(?:\s+\d+)?===".
LanguageHeadings == {"==English==", "==French=="}
EtymologyHeadings == {"===Etymology===", "===Etymology 1===",
                      "===Etymology 2==="}
SubHeadings == EtymologyHeadings \cup {"===Noun==="}

\* (?m)^ and (?m)$ at the position before piece i: with the flag m they
\* match at the start and end of every line, not only of the text.
AtLineStart(s, i) == i = 1 \/ s[i - 1] = "\n"
AtLineEnd(s, i) == i = Len(s) + 1 \/ s[i] = "\n"

\* "\s*\n" matched from piece i on: \s* takes the whole run of white space
\* and gives back up to its last "\n".  The result is the position after
\* that "\n", or 0 when the run holds no "\n".
AfterSpaceAndNewline(s, i) ==
    LET run == {k \in i..Len(s) : \A j \in i..k : s[j] \in WhiteSpace}
        nls == {k \in run : s[k] = "\n"}
    IN  IF nls = {} THEN 0
        ELSE (CHOOSE k \in nls : \A j \in nls : j <= k) + 1

\* "\n==[^=\n][^\n]*" and "\n===" at the position before piece i: a line
\* feed and a heading of the set hs.
AtHeading(s, i, hs) == i < Len(s) /\ s[i] = "\n" /\ s[i + 1] \in hs

\* The lazy "([\s\S]*?)" from piece b on, followed by "(?:X|$)" where X is
\* a line feed and a heading of hs: the capture grows one piece at a time
\* and stops at the first position where X or $ matches.
LazyCaptureEnd(s, b, hs) ==
    CHOOSE e \in b..(Len(s) + 1) :
        /\ AtHeading(s, e, hs) \/ AtLineEnd(s, e)
        /\ \A k \in b..(e - 1) : ~(AtHeading(s, k, hs) \/ AtLineEnd(s, k))

\* Line 500: the submatch of
\* (?m)^==English==\s*\n([\s\S]*?)(?:\n==[^=\n][^\n]*|$), leftmost match.
EnglishBlock(s) ==
    LET heads == {h \in 1..Len(s) :
                     /\ s[h] = "==English=="
                     /\ AtLineStart(s, h)
                     /\ AfterSpaceAndNewline(s, h + 1) # 0}
    IN  IF heads = {} THEN [found |-> FALSE, text |-> EmptyStr]
        ELSE LET h == CHOOSE x \in heads : \A y \in heads : x <= y
                 b == AfterSpaceAndNewline(s, h + 1)
                 e == LazyCaptureEnd(s, b, LanguageHeadings)
             IN  [found |-> TRUE, text |-> SubSeq(s, b, e - 1)]

\* Lines 498, 503 and 509: FindAllStringSubmatch(s, n) for
\* (?m)^===Etymology(?:\s+\d+)?===\s*\n([\s\S]*?)(?:\n===|$), searching
\* from piece from on; n < 0 asks for all matches.  A match that ends with
\* "\n===" has taken the first characters of the next heading line, so the
\* search goes on after that line's heading.
RECURSIVE EtymMatches(_, _, _)
EtymMatches(s, from, n) ==
    LET heads == {h \in from..Len(s) :
                     /\ s[h] \in EtymologyHeadings
                     /\ AtLineStart(s, h)
                     /\ AfterSpaceAndNewline(s, h + 1) # 0}
    IN  IF n = 0 \/ heads = {} THEN <<>>
        ELSE LET h == CHOOSE x \in heads : \A y \in heads : x <= y
                 b == AfterSpaceAndNewline(s, h + 1)
                 e == LazyCaptureEnd(s, b, SubHeadings)
                 next == IF AtHeading(s, e, SubHeadings) THEN e + 2 ELSE e
             IN  <<SubSeq(s, b, e - 1)>>
                     \o EtymMatches(s, next, IF n < 0 THEN n ELSE n - 1)

(***************************************************************************)
(* cleanEtymologyWikitext (src/dict.go:570-595).                           *)
(***************************************************************************)
\* The first position at or after i of a piece in the set ps, or 0.
NextOf(s, i, ps) ==
    LET hits == {k \in i..Len(s) : s[k] \in ps}
    IN  IF hits = {} THEN 0 ELSE CHOOSE k \in hits : \A j \in hits : k <= j

\* The template rules of lines 571-585 in their order.  A rule matches
\* "{{name|" and one field "[^|]*|"; then the literal "code|" when it has a
\* code, or a second field "[^|]*|" when any is set; then the term
\* "([^}|]+)"; then "}}", after further arguments "(?:\|[^}]*)?" when more
\* is set.  The match is replaced by the label, a blank and the term, or by
\* the term alone when the rule has no label.
NoLabel == <<>>
Rule(name, code, any, more, label) ==
    [name |-> name, code |-> code, any |-> any, more |-> more,
     label |-> label]
InheritanceRules ==
    << Rule("inh", "enm", FALSE, FALSE, <<"Middle English">>),
       Rule("inh", "ang", FALSE, FALSE, <<"Old English">>),
       Rule("inh", "fro", FALSE, FALSE, <<"Old French">>),
       Rule("inh", "la", FALSE, FALSE, <<"Latin">>),
       Rule("inh", "grc", FALSE, FALSE, <<"Ancient Greek">>),
       Rule("inh", "", TRUE, FALSE, NoLabel),
       Rule("der", "fro", FALSE, FALSE, <<"Old French">>),
       Rule("der", "la", FALSE, FALSE, <<"Latin">>),
       Rule("der", "enm", FALSE, FALSE, <<"Middle English">>),
       Rule("der", "grc", FALSE, FALSE, <<"Ancient Greek">>),
       Rule("der", "", TRUE, FALSE, NoLabel) >>
MentionRules ==
    << Rule("m", "", FALSE, TRUE, NoLabel),
       Rule("l", "", FALSE, FALSE, NoLabel),
       Rule("cog", "", FALSE, FALSE, NoLabel),
       Rule("ncog", "", FALSE, FALSE, NoLabel) >>

\* The rules without those for m, l, cog and ncog.
TemplateRulesInheritanceOnly == InheritanceRules

TemplateRules == InheritanceRules \o MentionRules

NoMatch == [ok |-> FALSE, term |-> <<>>, stop |-> 0]

\* The match of rule r that starts at piece i, if there is one: its term
\* and the position after it.
MatchRule(s, i, r) ==
    IF ~(i + 2 <= Len(s) /\ s[i] = "{{" /\ s[i + 1] = r.name
            /\ s[i + 2] = "|")
    THEN NoMatch
    ELSE LET p1 == NextOf(s, i + 3, {"|"})
             p2 == IF p1 = 0 THEN 0 ELSE NextOf(s, p1 + 1, {"|"})
             t0 == IF p1 = 0 THEN 0
                   ELSE IF r.code # ""
                   THEN (IF p1 + 2 <= Len(s) /\ s[p1 + 1] = r.code
                            /\ s[p1 + 2] = "|" THEN p1 + 3 ELSE 0)
                   ELSE IF r.any THEN (IF p2 = 0 THEN 0 ELSE p2 + 1)
                   ELSE p1 + 1
             stopper == IF t0 = 0 THEN 0 ELSE NextOf(s, t0, {"|", "}}"})
             close == IF stopper = 0 THEN 0 ELSE NextOf(s, stopper, {"}}"})
         IN  IF t0 = 0 \/ stopper = 0 \/ stopper = t0 THEN NoMatch
             ELSE IF s[stopper] = "}}"
             THEN [ok |-> TRUE, term |-> SubSeq(s, t0, stopper - 1),
                   stop |-> stopper + 1]
             ELSE IF r.more /\ close # 0
             THEN [ok |-> TRUE, term |-> SubSeq(s, t0, stopper - 1),
                   stop |-> close + 1]
             ELSE NoMatch

\* regexp.ReplaceAllString for one rule, from piece i on.
RECURSIVE ReplaceRule(_, _, _)
ReplaceRule(s, i, r) ==
    IF i > Len(s) THEN <<>>
    ELSE LET m == MatchRule(s, i, r)
         IN  IF m.ok
             THEN (IF r.label = NoLabel THEN m.term
                   ELSE r.label \o <<" ">> \o m.term)
                      \o ReplaceRule(s, m.stop, r)
             ELSE <<s[i]>> \o ReplaceRule(s, i + 1, r)

\* Lines 571-585: the rules applied one after the other, from rule k on.
RECURSIVE ApplyRules(_, _, _)
ApplyRules(s, rules, k) ==
    IF k > Len(rules) THEN s
    ELSE ApplyRules(ReplaceRule(s, 1, rules[k]), rules, k + 1)

\* Lines 586-591 and 565: the match of one of the remaining patterns that
\* starts at piece i, with the text that replaces it.
\*   "bold"      '''([^']*)'''                          -> $1
\*   "wlink"     \[\[w:[^\]|]*(?:\|([^\]]+))?\]\]       -> $1
\*   "link"      \[\[([^\]|]+)(?:\|[^\]]+)?\]\]         -> $1
\*   "italic"    ''([^']*)''                            -> $1
\*   "ref"       <ref[^>]*>[\s\S]*?</ref>               -> nothing
\*   "refself"   <ref[^>]*/>                            -> nothing
\*   "template"  \{\{[^}]*\}\}                          -> nothing
NoMarkup == [ok |-> FALSE, out |-> <<>>, stop |-> 0]
Markup(out, stop) == [ok |-> TRUE, out |-> out, stop |-> stop]
MatchMarkup(s, i, kind) ==
    CASE kind = "wlink" ->
           IF ~(i + 1 <= Len(s) /\ s[i] = "[[" /\ s[i + 1] = "w:")
           THEN NoMarkup
           ELSE LET stopper == NextOf(s, i + 2, {"|", "]]"})
                    close == IF stopper = 0 THEN 0
                             ELSE NextOf(s, stopper, {"]]"})
                IN  IF stopper = 0 THEN NoMarkup
                    ELSE IF s[stopper] = "]]" THEN Markup(<<>>, stopper + 1)
                    ELSE IF close > stopper + 1
                    THEN Markup(SubSeq(s, stopper + 1, close - 1), close + 1)
                    ELSE NoMarkup
      [] kind = "link" ->
           IF s[i] # "[[" THEN NoMarkup
           ELSE LET stopper == NextOf(s, i + 1, {"|", "]]"})
                    close == IF stopper = 0 THEN 0
                             ELSE NextOf(s, stopper, {"]]"})
                    target == SubSeq(s, i + 1, stopper - 1)
                IN  IF stopper = 0 \/ stopper = i + 1 THEN NoMarkup
                    ELSE IF s[stopper] = "]]" THEN Markup(target, stopper + 1)
                    ELSE IF close > stopper + 1 THEN Markup(target, close + 1)
                    ELSE NoMarkup
      [] kind = "bold" ->
           IF s[i] # "'''" THEN NoMarkup
           ELSE LET close == NextOf(s, i + 1, {"'''", "''"})
                IN  IF close = 0 \/ s[close] # "'''" THEN NoMarkup
                    ELSE Markup(SubSeq(s, i + 1, close - 1), close + 1)
      [] kind = "italic" ->
           IF s[i] # "''" THEN NoMarkup
           ELSE LET close == NextOf(s, i + 1, {"''"})
                IN  IF close = 0 THEN NoMarkup
                    ELSE Markup(SubSeq(s, i + 1, close - 1), close + 1)
      [] kind = "ref" ->
           IF s[i] # "<ref>" THEN NoMarkup
           ELSE LET close == NextOf(s, i + 1, {"</ref>"})
                IN  IF close = 0 THEN NoMarkup ELSE Markup(<<>>, close + 1)
      [] kind = "refself" ->
           IF s[i] = "<ref/>" THEN Markup(<<>>, i + 1) ELSE NoMarkup
      [] kind = "template" ->
           IF s[i] # "{{" THEN NoMarkup
           ELSE LET close == NextOf(s, i + 1, {"}}"})
                IN  IF close = 0 THEN NoMarkup ELSE Markup(<<>>, close + 1)

\* regexp.ReplaceAllString for one of these patterns, from piece i on.
RECURSIVE ReplaceMarkup(_, _, _)
ReplaceMarkup(s, i, kind) ==
    IF i > Len(s) THEN <<>>
    ELSE LET m == MatchMarkup(s, i, kind)
         IN  IF m.ok THEN m.out \o ReplaceMarkup(s, m.stop, kind)
             ELSE <<s[i]>> \o ReplaceMarkup(s, i + 1, kind)

\* Line 592: a run of three or more "\n" becomes "\n\n".
RECURSIVE CollapseNewlines(_)
CollapseNewlines(s) ==
    IF Len(s) = 0 THEN <<>>
    ELSE IF Len(s) >= 3 /\ s[1] = "\n" /\ s[2] = "\n" /\ s[3] = "\n"
    THEN CollapseNewlines(Tail(s))
    ELSE <<s[1]>> \o CollapseNewlines(Tail(s))

\* Line 593: a run of blanks and tabs becomes one blank.
RECURSIVE CollapseBlanks(_)
CollapseBlanks(s) ==
    IF Len(s) = 0 THEN <<>>
    ELSE IF s[1] \in {" ", "\t"}
    THEN (IF Len(s) >= 2 /\ s[2] \in {" ", "\t"}
          THEN CollapseBlanks(Tail(s))
          ELSE <<" ">> \o CollapseBlanks(Tail(s)))
    ELSE <<s[1]>> \o CollapseBlanks(Tail(s))

MarkupPasses == <<"wlink", "link", "italic", "ref", "refself", "template">>

RECURSIVE ApplyMarkup(_, _)
ApplyMarkup(s, k) ==
    IF k > Len(MarkupPasses) THEN s
    ELSE ApplyMarkup(ReplaceMarkup(s, 1, MarkupPasses[k]), k + 1)

cleanEtymologyWikitext(s) ==
    TrimSpace(CollapseBlanks(CollapseNewlines(
        ApplyMarkup(ApplyRules(s, TemplateRules, 1), 1))))

\* Lines 516-528: the trimmed, non-empty captures cleaned and joined by
\* "\n\n".
RECURSIVE joinEtymologyParts(_)
joinEtymologyParts(all) ==
    IF Len(all) = 0 THEN <<>>
    ELSE LET raw == TrimSpace(all[1])
             rest == SelectSeq(Tail(all), LAMBDA m : TrimSpace(m) # EmptyStr)
         IN  IF raw = EmptyStr THEN joinEtymologyParts(Tail(all))
             ELSE cleanEtymologyWikitext(raw)
                      \o (IF Len(rest) = 0 THEN <<>> ELSE <<"\n", "\n">>)
                      \o joinEtymologyParts(rest)

\* Lines 495-514.
extractAndCleanEtymology(wikitext) ==
    LET s == NormalizeNewlines(wikitext)
        englishBlock == EnglishBlock(s)
        inSection == IF englishBlock.found /\ englishBlock.text # EmptyStr
                     THEN EtymMatches(englishBlock.text, 1, -1) ELSE <<>>
        first == EtymMatches(s, 1, 1)
    IN  IF Len(inSection) > 0 THEN joinEtymologyParts(inSection)
        ELSE IF Len(first) > 0 THEN joinEtymologyParts(first)
        ELSE EmptyStr

(***************************************************************************)
(* extractWiktionaryExample (src/dict.go:530-561) and cleanExampleText     *)
(* (563-568).                                                              *)
(***************************************************************************)
\* Lines 563-568.
cleanExampleText(s) ==
    TrimSpace(ReplaceMarkup(ReplaceMarkup(TrimSpace(s), 1, "bold"), 1, "link"))

\* The longest prefix of s of at most n bytes: s[:n] when the cut falls
\* between two pieces.
RECURSIVE TakeBytes(_, _)
TakeBytes(s, n) ==
    IF Len(s) = 0 \/ PieceBytes(s[1]) > n THEN <<>>
    ELSE <<s[1]>> \o TakeBytes(Tail(s), n - PieceBytes(s[1]))

\* Lines 543-545 and 554-556: a text longer than limit bytes is cut to
\* limit - 3 bytes and "..." is added.
CapText(ex, limit) ==
    IF ByteLen(ex) > limit
    THEN TakeBytes(ex, limit - 3) \o <<".", ".", ".">>
    ELSE ex

\* "([^}|]+)(?:\|[^}]*)?\}\}" from piece t0 on: the term, if it matches.
TermAt(s, t0) ==
    LET stopper == NextOf(s, t0, {"|", "}}"})
        close == IF stopper = 0 THEN 0 ELSE NextOf(s, stopper, {"}}"})
    IN  IF stopper = 0 \/ stopper = t0 \/ close = 0 THEN NoMatch
        ELSE [ok |-> TRUE, term |-> SubSeq(s, t0, stopper - 1),
              stop |-> close + 1]

\* Line 538: the leftmost match of \{\{ux\|en\|([^}|]+)(?:\|[^}]*)?\}\}.
FindUx(s) ==
    LET hits == {i \in 1..(Len(s) - 4) :
                    /\ s[i] = "{{" /\ s[i + 1] = "ux" /\ s[i + 2] = "|"
                    /\ s[i + 3] = "en" /\ s[i + 4] = "|"
                    /\ TermAt(s, i + 5).ok}
    IN  IF hits = {} THEN NoMatch
        ELSE TermAt(s, (CHOOSE i \in hits : \A j \in hits : i <= j) + 5)

\* Line 541: the leftmost match of \|passage=([^}|]+)(?:\|[^}]*)?\}\}.
FindPassage(s) ==
    LET hits == {i \in 1..(Len(s) - 1) :
                    /\ s[i] = "|" /\ s[i + 1] = "passage="
                    /\ TermAt(s, i + 2).ok}
    IN  IF hits = {} THEN NoMatch
        ELSE TermAt(s, (CHOOSE i \in hits : \A j \in hits : i <= j) + 2)

\* "\s*([^\n]+)" from piece i on: \s* takes the run of white space and gives
\* back until a piece other than "\n" follows; the capture runs to the end
\* of that line.  The result is the start of the capture, or 0.
ExampleLineStart(s, i) ==
    LET starts == {p \in i..Len(s) :
                      /\ \A j \in i..(p - 1) : s[j] \in WhiteSpace
                      /\ s[p] # "\n"}
    IN  IF starts = {} THEN 0
        ELSE CHOOSE p \in starts : \A q \in starts : q <= p

\* Line 548: the leftmost match of (?m)^#:\s*([^\n]+).
FindDefinitionExample(s) ==
    LET hits == {i \in 1..Len(s) :
                    /\ s[i] = "#:" /\ AtLineStart(s, i)
                    /\ ExampleLineStart(s, i + 1) # 0}
    IN  IF hits = {} THEN NoMatch
        ELSE LET i == CHOOSE x \in hits : \A y \in hits : x <= y
                 b == ExampleLineStart(s, i + 1)
                 nl == NextOf(s, b, {"\n"})
                 e == IF nl = 0 THEN Len(s) + 1 ELSE nl
             IN  [ok |-> TRUE, term |-> SubSeq(s, b, e - 1), stop |-> e]

\* Lines 549-552: the capture trimmed, and cut before a "{{" that is not at
\* its start.
BeforeTemplate(m) ==
    LET ex == TrimSpace(m)
        idx == NextOf(ex, 1, {"{{"})
    IN  IF idx > 1 THEN TrimSpace(SubSeq(ex, 1, idx - 1)) ELSE ex

\* Lines 530-561.
extractWiktionaryExample(wikitext) ==
    LET s == NormalizeNewlines(wikitext)
        englishBlock == EnglishBlock(s)
        section == englishBlock.text
        ux == FindUx(section)
        passage == FindPassage(section)
        line == FindDefinitionExample(section)
        ex == BeforeTemplate(line.term)
    IN  IF ~englishBlock.found THEN EmptyStr
        ELSE IF ux.ok THEN cleanExampleText(ux.term)
        ELSE IF passage.ok THEN cleanExampleText(CapText(passage.term, 300))
        ELSE IF line.ok /\ ex # EmptyStr /\ ByteLen(ex) > 20
        THEN cleanExampleText(CapText(ex, 280))
        ELSE EmptyStr

(***************************************************************************)
(* fetchWiktionaryEtymology from the decoded page on (lines 484-490).      *)
(***************************************************************************)
\* The lines of a page joined by "\n".
RECURSIVE JoinLines(_)
JoinLines(ls) ==
    IF Len(ls) = 0 THEN <<>>
    ELSE IF Len(ls) = 1 THEN ls[1]
    ELSE ls[1] \o <<"\n">> \o JoinLines(Tail(ls))

\* All pages of at most MaxPageLines lines taken from the set lines.
PagesOver(lines) ==
    {JoinLines(ls) : ls \in UNION {[1..n -> lines] : n \in 0..MaxPageLines}}

\* Pages of language sections with etymology subsections of plain text.
SectionLines ==
    { <<"==English==">>, <<"==French==">>, <<"===Etymology===">>,
      <<"===Etymology 2===">>, <<>>, <<"e">>, <<"f">> }

\* Lines 484-490: the page's wikitext star is trimmed; an empty page gives
\* no etymology and no example, any other page what the two extractions
\* return.
WiktionaryPage(star) ==
    /\ wStar' = star
    /\ LET raw == TrimSpace(star)
       IN  wRes' = IF raw = EmptyStr
                   THEN [done |-> TRUE, etym |-> EmptyStr,
                         example |-> EmptyStr]
                   ELSE [done |-> TRUE,
                         etym |-> extractAndCleanEtymology(raw),
                         example |-> extractWiktionaryExample(raw)]
    /\ UNCHANGED <<sgVars, ldVars, dVars, eVars, lvVars, stVars>>

InitWiki ==
    LoaderAtStart /\ SuggestAtStart /\ DictAtStart /\ EtymAtStart
    /\ WikiAtStart /\ LevAtStart /\ StoreAtStart

\* One page is read in a run.
NextWiki ==
    ~wRes.done /\ \E star \in PagesOver(SectionLines) : WiktionaryPage(star)

SpecWiki == InitWiki /\ [][NextWiki]_vars

(***************************************************************************)
(* Reference notions the statements about a page are written in: a page    *)
(* as its lines, the English section as the lines from the heading         *)
(* ==English== to the next language heading, an etymology subsection as    *)
(* the lines from its heading to the next heading.                         *)
(***************************************************************************)
RECURSIVE SplitLines(_)
SplitLines(s) ==
    LET nl == NextOf(s, 1, {"\n"})
    IN  IF nl = 0 THEN <<s>>
        ELSE <<SubSeq(s, 1, nl - 1)>> \o SplitLines(SubSeq(s, nl + 1, Len(s)))

\* The line is a heading of the set hs.
IsHeadingLine(l, hs) == Len(l) = 1 /\ l[1] \in hs

\* The first of the lines from i on that is a heading of hs, or
\* Len(ls) + 1.
FirstLine(ls, i, hs) ==
    LET hits == {k \in i..Len(ls) : IsHeadingLine(ls[k], hs)}
    IN  IF hits = {} THEN Len(ls) + 1
        ELSE CHOOSE k \in hits : \A j \in hits : k <= j

PageLines == SplitLines(wStar)
PageHasEnglish == \E k \in 1..Len(PageLines) : PageLines[k] = <<"==English==">>

\* The lines of the English section, its heading excluded.
EnglishLines ==
    LET ls == PageLines
        h == FirstLine(ls, 1, {"==English=="})
        e == FirstLine(ls, h + 1, LanguageHeadings)
    IN  SubSeq(ls, h + 1, e - 1)

\* The contents of the etymology subsections among the lines ls from line
\* i on, in document order, each trimmed.
RECURSIVE SubsectionContents(_, _)
SubsectionContents(ls, i) ==
    LET h == FirstLine(ls, i, EtymologyHeadings)
        e == FirstLine(ls, h + 1, LanguageHeadings \cup SubHeadings)
    IN  IF h > Len(ls) THEN <<>>
        ELSE <<TrimSpace(JoinLines(SubSeq(ls, h + 1, e - 1)))>>
                 \o SubsectionContents(ls, e)

\* The texts joined by one blank line.
RECURSIVE JoinByBlankLine(_)
JoinByBlankLine(ts) ==
    IF Len(ts) = 0 THEN <<>>
    ELSE IF Len(ts) = 1 THEN ts[1]
    ELSE ts[1] \o <<"\n", "\n">> \o JoinByBlankLine(Tail(ts))

EnglishEtymologies == SubsectionContents(EnglishLines, 1)

\* C13: for a page whose English section has k >= 1 etymology subsections,
\* none of them empty, the etymology returned is the cleaned content of
\* every subsection, each with all its lines, in document order and joined
\* by one blank line.
EtymologyOfEverySubsection ==
    (/\ wRes.done
     /\ PageHasEnglish
     /\ Len(EnglishEtymologies) >= 1
     /\ \A k \in 1..Len(EnglishEtymologies) : EnglishEtymologies[k] # EmptyStr)
        => wRes.etym =
               JoinByBlankLine([k \in 1..Len(EnglishEtymologies) |->
                   cleanEtymologyWikitext(EnglishEtymologies[k])])

\* The words of a text: its pieces other than white space.
Words(t) == {t[k] : k \in 1..Len(t)} \ WhiteSpace

\* C14: for a page made of language sections, with an English section that
\* has etymology subsections of its own, every word of the etymology
\* returned stands in an etymology subsection of the English section; no
\* word comes from another language's section.
EtymologyOnlyFromEnglish ==
    (/\ wRes.done
     /\ PageHasEnglish
     /\ IsHeadingLine(PageLines[1], LanguageHeadings)
     /\ Len(EnglishEtymologies) >= 1
     /\ \A k \in 1..Len(EnglishEtymologies) : EnglishEtymologies[k] # EmptyStr)
        =>
        Words(wRes.etym) \subseteq
            UNION {Words(EnglishEtymologies[k]) :
                       k \in 1..Len(EnglishEtymologies)}

(***************************************************************************)
(* Pages whose English etymology is one line with one template.            *)
(***************************************************************************)
TemplateNames == {"inh", "der", "m", "l", "cog"}
LanguageCodes == {"enm", "ang", "fro", "la", "grc", "de"}
Terms == {<<"x">>, <<"x", " ", "y">>}
MoreArguments == {<<>>, <<"|", "t=", "g">>}
Leads == {<<>>, <<"From", " ">>}
Trails == {<<>>, <<".">>}

\* {{inh|en|code|term}} and {{der|en|code|term}}; {{m|code|term}},
\* {{l|code|term}} and {{cog|code|term}}; more are further arguments.
Template(name, code, term, more) ==
    <<"{{", name, "|">>
        \o (IF name \in {"inh", "der"} THEN <<"en", "|">> ELSE <<>>)
        \o <<code, "|">> \o term \o more \o <<"}}">>

TemplatePage(lead, name, code, term, more, trail) ==
    <<"==English==", "\n", "===Etymology===", "\n">>
        \o lead \o Template(name, code, term, more) \o trail

TemplatePages ==
    {TemplatePage(lead, name, code, term, more, trail) :
        lead \in Leads, name \in TemplateNames, code \in LanguageCodes,
        term \in Terms, more \in MoreArguments, trail \in Trails}

NextClean == ~wRes.done /\ \E star \in TemplatePages : WiktionaryPage(star)

SpecClean == InitWiki /\ [][NextClean]_vars

\* The language table of the statements.
LanguageName(code) ==
    CASE code = "enm" -> <<"Middle English">>
      [] code = "ang" -> <<"Old English">>
      [] code = "fro" -> <<"Old French">>
      [] code = "la" -> <<"Latin">>
      [] code = "grc" -> <<"Ancient Greek">>
      [] OTHER -> <<>>
InLanguageTable(code) == LanguageName(code) # <<>>

\* The term with the name of the language before it.
Labelled(code, term) == LanguageName(code) \o <<" ">> \o term

\* C15: an inh or der template with a code and a term cleans to the language
\* name and the term for the codes enm, ang, fro, la and grc, and to the
\* term alone for any other code.
InheritedTermLabelled ==
    \A lead \in Leads, name \in {"inh", "der"}, code \in LanguageCodes,
       term \in Terms, trail \in Trails :
        (wRes.done /\ wStar = TemplatePage(lead, name, code, term, <<>>, trail))
            => wRes.etym = lead \o (IF InLanguageTable(code)
                                    THEN Labelled(code, term) ELSE term)
                                \o trail

\* C16 as stated: an m, l or cog template whose code is in the language
\* table cleans to the language name and the term.
MentionedTermLabelled ==
    \A lead \in Leads, name \in {"m", "l", "cog"}, code \in LanguageCodes,
       term \in Terms, trail \in Trails :
        (/\ wRes.done
         /\ InLanguageTable(code)
         /\ wStar = TemplatePage(lead, name, code, term, <<>>, trail))
            => wRes.etym = lead \o Labelled(code, term) \o trail

\* C16: an m, l or cog template of a language code and a plain term cleans
\* to the term alone, without a language name, whether or not the code is
\* in the language table.
MentionedTermBare ==
    \A lead \in Leads, name \in {"m", "l", "cog"}, code \in LanguageCodes,
       term \in Terms, trail \in Trails :
        (wRes.done /\ wStar = TemplatePage(lead, name, code, term, <<>>, trail))
            => wRes.etym = lead \o term \o trail

\* C16 witness: "From {{cog|la|x}}." has been cleaned to "From x.".
MentionedTermBareWitness ==
    /\ wRes.done
    /\ wStar = TemplatePage(<<"From", " ">>, "cog", "la", <<"x">>, <<>>, <<".">>)
    /\ wRes.etym = <<"From", " ", "x", ".">>

(***************************************************************************)
(* Pages whose lines carry the three kinds of example.                     *)
(***************************************************************************)
UxLine == <<"#:", " ", "{{", "ux", "|", "en", "|", "u", "}}">>
PassageLine ==
    <<"#*", " ", "{{", "quote-book", "|", "en", "|", "passage=", "p", "}}">>
DefinitionExampleLine == <<"#:", " ", "The quick brown fox jumps.">>
\* "#:" lines of 1 byte and of 281 bytes; "(277 letters)" stands for a run
\* of 277 letters.
ShortExampleLine == <<"#:", " ", "e">>
LongExampleLine == <<"#:", " ", "(277 letters)", "e", "e", "e", "e">>
ExampleLines ==
    { <<"==English==">>, <<"==French==">>, <<"===Noun===">>,
      UxLine, PassageLine, DefinitionExampleLine, ShortExampleLine,
      LongExampleLine }

NextExample ==
    ~wRes.done /\ \E star \in PagesOver(ExampleLines) : WiktionaryPage(star)

SpecExample == InitWiki /\ [][NextExample]_vars

\* The English section has a line of the kind.
EnglishHas(line) ==
    \E k \in 1..Len(EnglishLines) : EnglishLines[k] = line

\* C17: the example of a page with an English section is the text of a ux
\* template of the section if it has one, else the passage of a quotation
\* if it has one, else the text of a "#:" line if it has one, wherever in
\* the section they stand, and it is empty if the section has none.
ExampleByPriority ==
    (wRes.done /\ PageHasEnglish) =>
        wRes.example =
            (IF EnglishHas(UxLine) THEN <<"u">>
             ELSE IF EnglishHas(PassageLine) THEN <<"p">>
             ELSE IF EnglishHas(DefinitionExampleLine)
             THEN <<"The quick brown fox jumps.">>
             ELSE EmptyStr)

\* The "#:" lines of the English section, in order, with the example each
\* of them gives: its text, cut to 277 bytes and "..." if it has more than
\* 280.
HashColonLines ==
    SelectSeq(EnglishLines,
              LAMBDA l : l \in {ShortExampleLine, DefinitionExampleLine,
                                LongExampleLine})
ExampleOfLine(l) ==
    IF l = LongExampleLine THEN <<"(277 letters)", ".", ".", ".">>
    ELSE SubSeq(l, 3, Len(l))
LongEnough(l) == l \in {DefinitionExampleLine, LongExampleLine}

\* C26: when the English section has no ux template and no passage and
\* has several "#:" lines, the example is the text of the first of them
\* that has more than 20 characters, shorter "#:" lines before it
\* notwithstanding, cut to 280 characters with an ellipsis if it is longer.
FirstLongEnoughExample ==
    LET ls == HashColonLines
        long == {k \in 1..Len(ls) : LongEnough(ls[k])}
    IN  (/\ wRes.done /\ PageHasEnglish
         /\ ~EnglishHas(UxLine) /\ ~EnglishHas(PassageLine)
         /\ Len(ls) >= 2 /\ long # {})
            => wRes.example = ExampleOfLine(ls[FirstOf(long)])

(***************************************************************************)
(* levenshtein (src/dict.go:295-321) called on three strings.              *)
(***************************************************************************)
\* Strings of three characters with a repeated character.
LongStrings == {<<"a", "b", "b">>, <<"b", "b", "b">>}
LevStrings == StringsOver(LowerLetters, 0, MaxStrLen) \cup LongStrings

\* The calls levenshtein(a, b), (b, a), (a, a), (a, c) and (b, c).
LevCalls(a, b, c) ==
    /\ lvArgs' = <<a, b, c>>
    /\ lvDist' = [done |-> TRUE,
                  ab |-> levenshtein(a, b),
                  ba |-> levenshtein(b, a),
                  aa |-> levenshtein(a, a),
                  ac |-> levenshtein(a, c),
                  bc |-> levenshtein(b, c)]
    /\ UNCHANGED <<sgVars, ldVars, dVars, eVars, wVars, stVars>>

InitLev ==
    LoaderAtStart /\ SuggestAtStart /\ DictAtStart /\ EtymAtStart
    /\ WikiAtStart /\ LevAtStart /\ StoreAtStart

NextLev == ~lvDist.done /\ \E a, b, c \in LevStrings : LevCalls(a, b, c)

SpecLev == InitLev /\ [][NextLev]_vars

\* C18: levenshtein(a, b) = levenshtein(b, a) for all strings a and b, the
\* empty string and strings of different lengths included.
LevenshteinSymmetric == lvDist.done => lvDist.ab = lvDist.ba

\* C18 witness: a and b have different lengths, neither is empty nor a
\* prefix of the other, and both calls returned 2.
LevenshteinSymmetricWitness ==
    /\ lvDist.done
    /\ lvArgs[1] = <<"a", "b", "b">> /\ lvArgs[2] = <<"b", "a">>
    /\ lvDist.ab = 2 /\ lvDist.ba = 2

\* C19: levenshtein(a, a) = 0 and
\* levenshtein(a, c) <= levenshtein(a, b) + levenshtein(b, c) for all
\* strings a, b and c.
LevenshteinTriangle ==
    lvDist.done =>
        /\ lvDist.aa = 0
        /\ lvDist.ac <= lvDist.ab + lvDist.bc

\* C19 witness: three different non-empty strings for which the inequality
\* is an equality, and the distance of a to itself is 0.
LevenshteinTriangleWitness ==
    /\ lvDist.done
    /\ lvArgs[1] = <<"a", "a">> /\ lvArgs[2] = <<"a", "b">>
    /\ lvArgs[3] = <<"b", "b", "b">>
    /\ lvDist.aa = 0
    /\ lvDist.ab = 1 /\ lvDist.bc = 2 /\ lvDist.ac = 3

\* The full table of the dynamic programme: FullTable(a, b)[i, j] is the
\* distance between the first i characters of a and the first j of b.
FullTable(a, b) ==
    LET D[i \in 0..Len(a), j \in 0..Len(b)] ==
            IF i = 0 THEN j
            ELSE IF j = 0 THEN i
            ELSE min(D[i - 1, j] + 1,
                     min(D[i, j - 1] + 1,
                         D[i - 1, j - 1] + (IF a[i] = b[j] THEN 0 ELSE 1)))
    IN  D

\* C21: the two rolling rows of levenshtein(a, b) give the corner of the
\* full table, which is the least number of single-character insertions,
\* deletions and substitutions that turn a into b.
LevenshteinIsEditDistance ==
    lvDist.done =>
        LET a == lvArgs[1]
            b == lvArgs[2]
        IN  /\ lvDist.ab = FullTable(a, b)[Len(a), Len(b)]
            /\ lvDist.ab = EditFrom(a, b, 1, 1)

\* C21 witness: strings of different lengths that need a substitution and
\* an insertion, so that the rows are swapped three times.
LevenshteinIsEditDistanceWitness ==
    /\ lvDist.done
    /\ lvArgs[1] = <<"b", "b", "b">> /\ lvArgs[2] = <<"a", "b">>
    /\ lvDist.ab = 2
    /\ FullTable(lvArgs[1], lvArgs[2])[3, 2] = 2

(***************************************************************************)
(* fetchEtymonlineEtymology (src/dict.go:427-435): the pointer phrase.     *)
(***************************************************************************)
\* The description that fetchEtymonlineEtymology was given and the pointer
\* phrase in it.
PrimaryDescription == IF ePrim.meta # EmptyStr THEN ePrim.meta ELSE ePrim.og
HasPointerPhrase(t) == \E i \in 1..Len(t) : t[i] = "See origin"

\* C24: the text extracted from etymonline never contains the pointer
\* phrase "See origin", and a description that holds nothing before the
\* pointer phrase yields the empty text.
PointerPhraseRemoved ==
    eRes.done =>
        /\ ~HasPointerPhrase(eRes.primary)
        /\ (LET t == TrimSpace(PrimaryDescription)
            IN  Len(t) > 0 /\ t[1] = "See origin") => eRes.primary = EmptyStr

(***************************************************************************)
(* The saved words: saveDictWord (src/dict.go:57-69) and                   *)
(* loadRecentDictWords (src/dict.go:93-117) on the table dict_words.       *)
(***************************************************************************)
\* Lines 58-68: the table after saveDictWord(word) at second now.  INSERT OR
\* REPLACE on the primary key word removes the row of the word, if any, and
\* adds one with created_at = datetime('now').
saveDictWord(rows, word, now) ==
    LET w == TrimSpace(ToLower(word))
    IN  IF w = EmptyStr THEN rows
        ELSE {r \in rows : r.word # w} \cup {[word |-> w, created_at |-> now]}

\* Lines 94-116: the sets loadRecentDictWords(n) can return.  ORDER BY
\* created_at DESC LIMIT n takes n rows from the top; rows with the same
\* created_at come in an order the query does not fix.
loadRecentDictWords(rows, n) ==
    IF n <= 0 THEN {{}}
    ELSE LET k == min(n, Cardinality(rows))
             tops == {t \in SUBSET rows :
                         /\ Cardinality(t) = k
                         /\ \A r \in t, q \in rows \ t :
                                r.created_at >= q.created_at}
         IN  {{ToLower(r.word) : r \in t} : t \in tops}

\* The words printDictEntries passes to saveDictWord (line 719).
SavedHeadwords == {EmptyStr, <<"a">>, <<"b">>, <<"a", "b">>, <<"A", " ">>}

\* Line 719: saveDictWord(e.Word).
SaveDictWord(word) ==
    /\ Len(stLog) < MaxSaves
    /\ stRows' = saveDictWord(stRows, word, stClock)
    /\ stLog' = Append(stLog, word)
    /\ stRecent' = NoRecent
    /\ UNCHANGED <<stClock, sgVars, ldVars, dVars, eVars, wVars, lvVars>>

\* A second passes.
ClockTick ==
    /\ stClock < MaxClock
    /\ stClock' = stClock + 1
    /\ UNCHANGED <<stRows, stLog, stRecent, sgVars, ldVars, dVars, eVars,
                   wVars, lvVars>>

\* Line 642 (n = 3) and any other call loadRecentDictWords(n).
LoadRecent(n) ==
    /\ \E words \in loadRecentDictWords(stRows, n) :
          stRecent' = [asked |-> TRUE, n |-> n, words |-> words]
    /\ UNCHANGED <<stRows, stClock, stLog, sgVars, ldVars, dVars, eVars,
                   wVars, lvVars>>

InitStore ==
    LoaderAtStart /\ SuggestAtStart /\ DictAtStart /\ EtymAtStart
    /\ WikiAtStart /\ LevAtStart /\ StoreAtStart

NextStore ==
    \/ \E word \in SavedHeadwords : SaveDictWord(word)
    \/ ClockTick
    \/ \E n \in 0..3 : LoadRecent(n)

SpecStore == InitStore /\ [][NextStore]_vars

\* The words looked up so far as the store keeps them, and the place of the
\* latest lookup of each in the log.
LookedUp ==
    {TrimSpace(ToLower(stLog[i])) : i \in 1..Len(stLog)} \ {EmptyStr}
LatestLookup(w) ==
    CHOOSE i \in 1..Len(stLog) :
        /\ TrimSpace(ToLower(stLog[i])) = w
        /\ \A k \in (i + 1)..Len(stLog) : TrimSpace(ToLower(stLog[k])) # w

\* The n words whose latest lookup is most recent.
MostRecent(n) ==
    {w \in LookedUp :
        Cardinality({v \in LookedUp : LatestLookup(v) > LatestLookup(w)}) < n}

\* C27: the table holds each looked-up word once, lower-cased, and
\* loadRecentDictWords(n) returns the up to n words whose latest lookup is
\* most recent, so that a word looked up again counts as the most recent.
RecentWordsAreLatestLookups ==
    /\ {r.word : r \in stRows} = LookedUp
    /\ \A w \in LookedUp : Cardinality({r \in stRows : r.word = w}) = 1
    /\ stRecent.asked => stRecent.words = MostRecent(stRecent.n)

====
